---- MODULE Spec2Model ----
(***************************************************************************)
(* ScriptFlow backend: intake gateway (generateScriptHandler), BullMQ job  *)
(* queue, pipeline worker (processJob), Tier-1 analysis cache, Script      *)
(* store, public-link allocation and the per-identity rate limiter.        *)
(***************************************************************************)
EXTENDS Naturals, Integers, Sequences, FiniteSets, TLC

\* ------------------------------------------------------------------ bounds
\* number of calls of generateScriptHandler in one behaviour
MaxSubmissions == 2
\* number of calls made by processJob's try block that throw or never return
\* in one behaviour (a throw inside the catch block belongs to the failure
\* being handled)
MaxFaults == 1
\* the same for the retry specification (one more than the three that
\* exhaust one job's attempts is reached when the bound is raised)
RetryFaults == 3
\* clock steps per rate-limit window, clock steps in a behaviour, and store
\* errors of the rate limiter allowed in a behaviour
TicksPerWindow == 2
MaxTicks == 4
RlFaults == 1
\* requests of the rate limiter that may enter while another is in flight
RlOverlaps == 1
\* launches of the rendering engine in one behaviour
MaxLaunches == 3

\* worker slots of the BullMQ Worker (QUEUE_CONCURRENCY): two concurrent slots
Workers == {"w1", "w2"}

\* ------------------------------------------------------- program constants
\* defaultJobOptions.attempts
QueueAttemptsMut == 3 + 1
QueueAttempts == 3
\* defaultJobOptions.backoff.delay (ms), type 'exponential'
BackoffDelay == 1000
\* generateUniquePublicId: number of collision-checked draws
PublicIdTries == 3
\* processJob: "if (job.attemptsMade >= 2)" sends the fallback
FinalAttemptsMade == 2

\* ------------------------------------------------------------ input domain
\* A reel URL is a path plus an optional tracking query.
UrlA  == [path |-> "https://instagram.com/reel/abc", query |-> ""]
UrlAq == [path |-> "https://instagram.com/reel/abc", query |-> "igsh=1"]

\* a URL that is not an Instagram reel
UrlOther == [path |-> "https://youtube.com/watch", query |-> "v=abc"]
\* paths of the input domain that contain 'instagram.com/reel'
ReelPaths == {"https://instagram.com/reel/abc", "https://instagram.com/reel/abc-x"}

UrlText(u) == IF u.query = "" THEN u.path ELSE u.path \o "?" \o u.query

\* request bodies offered to the gateway
Bodies ==
  { [sub |-> "101", url |-> UrlA,  idea |-> "cooking tip"],
    [sub |-> "202", url |-> UrlAq, idea |-> "cooking tip"],
    [sub |-> "",    url |-> UrlA,  idea |-> "cooking tip"],
    [sub |-> "101", url |-> UrlOther, idea |-> "cooking tip"],
    [sub |-> "101", url |-> UrlA,  idea |-> "tip"] }

\* outputs of the external generation / rendering collaborators: every call
\* returns a value of its own, named by the job and the attempt that made it
GeneratedText(j, n) == <<"script", j, n>>
UploadedImage(j, n) == <<"image", j, n>>
\* crypto.randomBytes(6) / randomBytes(9) tokens, abstracted to small pools
\* (an identifier is the sequence of its characters)
Rep(c, n) == [i \in 1..n |-> c]
Ids8  == {Rep("A", 8)}
Ids12 == {Rep("B", 12)}
\* analysis payloads: transcript present (audio analysed) or null
AnalysisOf(audio) == IF audio THEN "with-transcript" ELSE "visual-only"

HandlerIds == 1..MaxSubmissions

\* ------------------------------------------------------------------- state
VARIABLES
  hs,          \* handler invocations: pc, body, response
  jobs,        \* Job collection (MongoDB), keyed by jobId
  queue,       \* BullMQ job state, keyed by jobId
  scripts,     \* Script collection (MongoDB): set of rows
  dna,         \* ReelDNA collection (Tier-1 cache): set of entries
  ws,          \* worker slots executing processJob
  sent,        \* messages handed to sendToManyChat, per job
  hist,        \* per job: attempts started, cache misses, downloads, analyses
  faultsLeft,  \* failing calls still allowed in this behaviour
  rlDocs,      \* RateLimit collection (MongoDB), one document per ip
  now,         \* wall clock (ms)
  rq,          \* requests inside the rateLimiter middleware
  gw,          \* per ip: the fixed window as counted from the requests
  answered,    \* the latest answer of the middleware: next() or 429
  rlClean,     \* no limiter error and no overlapping requests so far
  rlFaultsLeft, \* limiter store errors still allowed
  overlapsLeft, \* requests that may still enter while another is in flight
  fps,         \* two requests and the fingerprints computed for them
  views,       \* requests to GET /s/:publicId and their responses
  ex,          \* one attempt's extraction, analysis and generation, step by step
  mc,          \* one invocation of sendToManyChat, call by call
  br,          \* services/browser.ts: browserInstance, launches, callers
  rt,          \* one HTTP request under the timeout middleware
  lk           \* a public identifier drawn and the link built from it

pipeVars == <<hs, jobs, queue, scripts, dna, ws, sent, hist, faultsLeft>>
rlVars == <<rlDocs, now, rq, gw, answered, rlClean, rlFaultsLeft, overlapsLeft>>
pureVars == <<fps, views, ex, mc, br, rt, lk>>
vars == <<pipeVars, rlVars, pureVars>>

\* ----------------------------------------------------------------- hashing
\* utils/hash.ts generateRequestHash: sha256 of `${id}-${url}-${idea}`;
\* sha256 is taken as injective on the concatenated text.
generateRequestHash(manychatUserId, reelUrl, userIdea) ==
  manychatUserId \o "-" \o reelUrl \o "-" \o userIdea

\* normalizeInstagramUrl: strips the tracking query
normalizeInstagramUrl(u) == u.path

\* generateReelHash: hash of the normalized source reference
generateReelHash(u) == normalizeInstagramUrl(u)

BodyHash(b) == generateRequestHash(b.sub, UrlText(b.url), b.idea)

\* ------------------------------------------------------------- validation
\* validators/requestValidator.ts scriptGenerationSchema
ValidBody(b) ==
  /\ b.sub # ""
  /\ b.url.path \in ReelPaths
  /\ Len(b.idea) >= 4

\* ----------------------------------------------------------- store lookups
ScriptByHash(h) == {r \in scripts : r.requestHash = h}
ScriptByPublicId(p) == {r \in scripts : r.publicId = p}

\* Job.findOne({requestHash, status: {$in: ['queued','processing']}})
ActiveJobs(h) ==
  {j \in HandlerIds : /\ jobs[j].status \in {"queued", "processing"}
                      /\ jobs[j].requestHash = h}

NoJob == [status |-> "none", requestHash |-> "", attempts |-> 0,
          error |-> "", result |-> <<>>, subscriberId |-> ""]
NoItem == [state |-> "none", attemptsMade |-> 0, delay |-> 0, body |-> <<>>]
NoResp == [kind |-> "none"]
IdleHandler == [pc |-> "new", body |-> <<>>, hash |-> "", resp |-> NoResp,
                lookups |-> 0]
IdleWorker == [pc |-> "idle", job |-> 0, attemptsMade |-> 0,
               analysis |-> "", text |-> <<>>, image |-> <<>>, tries |-> 0,
               publicId |-> <<>>, err |-> "", lost |-> FALSE, hit |-> FALSE]

\* rate limiter state: caller identities, in-flight request slots, constants
Ips == {"10.0.0.1"}
RlSlots == {"r1", "r2"}
MAX_REQUESTS == 100
WINDOW_MS == 15 * 60 * 1000
TTL_SECONDS == 900
TickMs == WINDOW_MS \div TicksPerWindow
Horizon == MaxTicks * TickMs

NoDoc == [present |-> FALSE, count |-> 0, windowStart |-> 0, createdAt |-> 0, id |-> 0]
IdleRequest == [pc |-> "idle", ip |-> "", at |-> 0, snap |-> 0, id |-> 0, ord |-> 0]
NoAnswer == [verdict |-> "none", ord |-> 0]

NoFps == [a |-> <<>>, b |-> <<>>, ha |-> "", hb |-> ""]
NoView == [id |-> <<>>, status |-> 0, page |-> <<>>, lookups |-> 0]
NoEx == [pc |-> "none"]
NoMc == [pc |-> "none"]
NoBr == [pc |-> "none"]
NoRt == [pc |-> "none"]
NoLk == [pc |-> "none"]
ViewSlots == {1, 2}

PureInitial ==
  /\ fps = NoFps
  /\ views = [v \in ViewSlots |-> NoView]
  /\ ex = NoEx
  /\ mc = NoMc
  /\ br = NoBr
  /\ rt = NoRt
  /\ lk = NoLk

RlInitial ==
  /\ rlDocs = [ip \in Ips |-> NoDoc]
  /\ now = 0
  /\ rq = [r \in RlSlots |-> IdleRequest]
  /\ gw = [ip \in Ips |-> [start |-> 0, n |-> 0]]
  /\ answered = NoAnswer
  /\ rlClean = TRUE
  /\ rlFaultsLeft = 0
  /\ overlapsLeft = 0

Init ==
  /\ hs = [h \in HandlerIds |-> IdleHandler]
  /\ jobs = [j \in HandlerIds |-> NoJob]
  /\ queue = [j \in HandlerIds |-> NoItem]
  /\ scripts = {}
  /\ dna = {}
  /\ ws = [w \in Workers |-> IdleWorker]
  /\ sent = [j \in HandlerIds |-> [full |-> 0, fallback |-> 0]]
  /\ hist = [j \in HandlerIds |-> [starts |-> 0, misses |-> 0, downloads |-> 0, analyses |-> 0]]
  /\ faultsLeft = MaxFaults
  /\ RlInitial
  /\ PureInitial

\* Steps of processJob that change no modelled store and no queue (download,
\* extraction and analysis, previous-script lookup, generation and rendering,
\* dataset logging) commute with every step of the other processes; they are
\* taken as soon as they are reached.
LocalPcs == {"download", "analyze", "context", "generate", "dataset"}
Quiet == \A w \in Workers : ws[w].pc \notin LocalPcs

\* ============================================================== gateway
\* generateScriptHandler, lines 25-52: requestId, validation, hash,
\* Script.findOne (idempotency check).  Invocation h may start only after
\* invocation h-1 has started (invocations are interchangeable).
CanStart(h) ==
  /\ Quiet
  /\ hs[h].pc = "new"
  /\ IF h = 1 THEN TRUE ELSE hs[h - 1].pc # "new"

\* lines 28-37: safeParse fails: 400 INVALID_INPUT, nothing else is done
HandlerRejectMut(h, b) ==
  /\ CanStart(h)
  /\ ~ValidBody(b)
  /\ hs' = [hs EXCEPT ![h] = [pc |-> "findJob", body |-> b,
                              hash |-> BodyHash(b), resp |-> NoResp,
                              lookups |-> 1]]
  /\ UNCHANGED <<rlVars, pureVars, jobs, queue, scripts, dna, ws, sent, hist, faultsLeft>>

HandlerReject(h, b) ==
  /\ CanStart(h)
  /\ ~ValidBody(b)
  /\ hs' = [hs EXCEPT ![h] = [pc |-> "done", body |-> b, hash |-> "",
                              resp |-> [kind |-> "invalid", status |-> 400],
                              lookups |-> 0]]
  /\ UNCHANGED <<rlVars, pureVars, jobs, queue, scripts, dna, ws, sent, hist, faultsLeft>>

HandlerCacheHitMut(h, b) ==
  /\ CanStart(h)
  /\ ValidBody(b)
  /\ ScriptByHash(BodyHash(b)) # {}
  /\ LET row == CHOOSE r \in ScriptByHash(BodyHash(b)) : TRUE
     IN hs' = [hs EXCEPT ![h] =
                 [pc |-> "done", body |-> b, hash |-> BodyHash(b),
                  resp |-> [kind |-> "cached", script |-> row.imageUrl,
                            imageUrl |-> row.imageUrl],
                  lookups |-> 1]]
  /\ UNCHANGED <<rlVars, pureVars, jobs, queue, scripts, dna, ws, sent, hist, faultsLeft>>

HandlerCacheHit(h, b) ==
  /\ CanStart(h)
  /\ ValidBody(b)
  /\ ScriptByHash(BodyHash(b)) # {}
  /\ LET row == CHOOSE r \in ScriptByHash(BodyHash(b)) : TRUE
     IN hs' = [hs EXCEPT ![h] =
                 [pc |-> "done", body |-> b, hash |-> BodyHash(b),
                  resp |-> [kind |-> "cached", script |-> row.scriptText,
                            imageUrl |-> row.imageUrl],
                  lookups |-> 1]]
  /\ UNCHANGED <<rlVars, pureVars, jobs, queue, scripts, dna, ws, sent, hist, faultsLeft>>

HandlerStart(h, b) ==
  /\ CanStart(h)
  /\ ValidBody(b)
  /\ ScriptByHash(BodyHash(b)) = {}
  /\ hs' = [hs EXCEPT ![h] = [pc |-> "findJob", body |-> b,
                              hash |-> BodyHash(b), resp |-> NoResp,
                              lookups |-> 1]]
  /\ UNCHANGED <<rlVars, pureVars, jobs, queue, scripts, dna, ws, sent, hist, faultsLeft>>

\* lines 54-67: Job.findOne for an in-flight job of the same hash
HandlerFindJob(h) ==
  /\ Quiet
  /\ hs[h].pc = "findJob"
  /\ IF ActiveJobs(hs[h].hash) # {}
       THEN LET j == CHOOSE k \in ActiveJobs(hs[h].hash) : TRUE
            IN hs' = [hs EXCEPT ![h].pc = "done",
                                ![h].resp = [kind |-> "already", jobId |-> j]]
       ELSE hs' = [hs EXCEPT ![h].pc = "createJob"]
  /\ UNCHANGED <<rlVars, pureVars, jobs, queue, scripts, dna, ws, sent, hist, faultsLeft>>

\* lines 69-78: Job.create
HandlerCreateJob(h) ==
  /\ Quiet
  /\ hs[h].pc = "createJob"
  /\ jobs' = [jobs EXCEPT ![h] =
               [status |-> "queued", requestHash |-> hs[h].hash, attempts |-> 0,
                error |-> "", result |-> <<>>, subscriberId |-> hs[h].body.sub]]
  /\ hs' = [hs EXCEPT ![h].pc = "enqueue"]
  /\ UNCHANGED <<rlVars, pureVars, queue, scripts, dna, ws, sent, hist, faultsLeft>>

\* lines 80-96: addScriptJob and the immediate 'queued' response
HandlerEnqueue(h) ==
  /\ Quiet
  /\ hs[h].pc = "enqueue"
  /\ queue' = [queue EXCEPT ![h] = [state |-> "waiting", attemptsMade |-> 0,
                                    delay |-> 0, body |-> hs[h].body]]
  /\ hs' = [hs EXCEPT ![h].pc = "done",
                      ![h].resp = [kind |-> "queued", jobId |-> h]]
  /\ UNCHANGED <<rlVars, pureVars, jobs, scripts, dna, ws, sent, hist, faultsLeft>>

\* addScriptJob rejects (queue broker unreachable): the catch block of lines
\* 98-106 answers 500 QUEUE_ERROR; the Job record created at line 70 is left
\* as it is
HandlerEnqueueFails(h) ==
  /\ Quiet
  /\ hs[h].pc = "enqueue"
  /\ faultsLeft > 0
  /\ faultsLeft' = faultsLeft - 1
  /\ hs' = [hs EXCEPT ![h].pc = "done",
                      ![h].resp = [kind |-> "error", status |-> 500]]
  /\ UNCHANGED <<rlVars, pureVars, jobs, queue, scripts, dna, ws, sent, hist>>

\* ================================================================ queue
\* BullMQ retry policy: after a failed attempt the job is delayed with
\* exponential backoff while attemptsMade < attempts, else it is failed.
Pow2(n) == IF n = 0 THEN 1 ELSE 2 * (IF n = 1 THEN 1 ELSE IF n = 2 THEN 2 ELSE 4)

AfterFailure(item) ==
  LET made == item.attemptsMade + 1
  IN IF made < QueueAttempts
       THEN [item EXCEPT !.state = "delayed", !.attemptsMade = made,
                         !.delay = BackoffDelay * Pow2(made - 1)]
       ELSE [item EXCEPT !.state = "failed", !.attemptsMade = made, !.delay = 0]

\* the backoff delay of a delayed job elapses
BackoffElapsed(j) ==
  /\ Quiet
  /\ queue[j].state = "delayed"
  /\ queue' = [queue EXCEPT ![j].state = "waiting"]
  /\ UNCHANGED <<rlVars, pureVars, hs, jobs, scripts, dna, ws, sent, hist, faultsLeft>>

\* =============================================================== worker
CanFault == faultsLeft > 0

Body(w) == queue[ws[w].job].body

\* worker slots are interchangeable: a job goes to the first idle slot
FirstIdle(w) ==
  /\ Quiet
  /\ ws[w].pc = "idle"
  /\ w = "w2" => ws["w1"].pc # "idle"

\* A worker slot takes a waiting job; processJob lines 53-63 set the Job
\* record to 'processing' with attempts = attemptsMade + 1.
ClaimJob(w, j) ==
  /\ FirstIdle(w)
  /\ queue[j].state = "waiting"
  /\ queue' = [queue EXCEPT ![j].state = "active"]
  /\ jobs' = [jobs EXCEPT ![j].status = "processing",
                          ![j].attempts = queue[j].attemptsMade + 1]
  /\ ws' = [ws EXCEPT ![w] = [IdleWorker EXCEPT !.pc = "probe", !.job = j,
                               !.attemptsMade = queue[j].attemptsMade]]
  /\ hist' = [hist EXCEPT ![j].starts = @ + 1]
  /\ UNCHANGED <<rlVars, pureVars, hs, scripts, dna, sent, faultsLeft>>

\* The status update of lines 56-63 throws: it is outside the try block, so
\* neither the catch block nor the fallback runs; BullMQ records the failure.
ClaimJobUpdateFails(w, j) ==
  /\ FirstIdle(w)
  /\ queue[j].state = "waiting"
  /\ CanFault
  /\ faultsLeft' = faultsLeft - 1
  /\ queue' = [queue EXCEPT ![j] = AfterFailure(queue[j])]
  /\ hist' = [hist EXCEPT ![j].starts = @ + 1]
  /\ UNCHANGED <<rlVars, pureVars, hs, jobs, scripts, dna, ws, sent>>

\* lines 74-98: Tier-1 cache probe
CacheEntry(u) == {e \in dna : e.reelUrlHash = generateReelHash(u)}

\* an entry exists whose stored reel URL names the same normalized source
SourceCached(u) ==
  \E e \in dna : \E v \in {UrlA, UrlAq} :
      /\ UrlText(v) = e.reelUrl
      /\ normalizeInstagramUrl(v) = normalizeInstagramUrl(u)

CacheProbeMut(w) ==
  /\ Quiet
  /\ ws[w].pc = "probe"
  /\ ws' = [ws EXCEPT ![w].pc = "download"]
  /\ hist' = IF SourceCached(Body(w).url)
               THEN hist
               ELSE [hist EXCEPT ![ws[w].job].misses = @ + 1]
  /\ UNCHANGED <<rlVars, pureVars, hs, jobs, queue, scripts, dna, sent, faultsLeft>>

\* a probe that hits but hands on no analysis
CacheProbeEmptyMut(w) ==
  /\ Quiet
  /\ ws[w].pc = "probe"
  /\ IF CacheEntry(Body(w).url) # {}
       THEN ws' = [ws EXCEPT ![w].pc = "context", ![w].hit = TRUE]
       ELSE ws' = [ws EXCEPT ![w].pc = "download"]
  /\ hist' = IF SourceCached(Body(w).url)
               THEN hist
               ELSE [hist EXCEPT ![ws[w].job].misses = @ + 1]
  /\ UNCHANGED <<rlVars, pureVars, hs, jobs, queue, scripts, dna, sent, faultsLeft>>

CacheProbe(w) ==
  /\ Quiet
  /\ ws[w].pc = "probe"
  /\ IF CacheEntry(Body(w).url) # {}
       THEN ws' = [ws EXCEPT ![w].pc = "context", ![w].hit = TRUE,
                     ![w].analysis =
                        (CHOOSE e \in CacheEntry(Body(w).url) : TRUE).analysis]
       ELSE ws' = [ws EXCEPT ![w].pc = "download"]
  /\ hist' = IF SourceCached(Body(w).url)
               THEN hist
               ELSE [hist EXCEPT ![ws[w].job].misses = @ + 1]
  /\ UNCHANGED <<rlVars, pureVars, hs, jobs, queue, scripts, dna, sent, faultsLeft>>

\* line 96: downloadReel succeeds
DownloadReel(w) ==
  /\ ws[w].pc = "download"
  /\ ws' = [ws EXCEPT ![w].pc = "analyze"]
  /\ hist' = [hist EXCEPT ![ws[w].job].downloads = @ + 1]
  /\ UNCHANGED <<rlVars, pureVars, hs, jobs, queue, scripts, dna, sent, faultsLeft>>

\* downloadReel throws 'Video too long' (duration filter) or 'Download failed'
DownloadErrors == {"Video too long", "Download failed"}

DownloadReelFails(w, e) ==
  /\ ws[w].pc = "download"
  /\ CanFault
  /\ faultsLeft' = faultsLeft - 1
  /\ ws' = [ws EXCEPT ![w].pc = "catch", ![w].err = e]
  /\ UNCHANGED <<rlVars, pureVars, hs, jobs, queue, scripts, dna, sent, hist>>

\* lines 99-148 (hybrid mode): frames (f) and audio (a) are extracted in
\* parallel and joined; with no frames the audio is extracted again (a2) and
\* analysed alone; analyzeVideo returns the analysis.
ExtractAndAnalyze(w, f, a, a2) ==
  /\ ws[w].pc = "analyze"
  /\ a2 = a \/ (~f /\ ~a)
  /\ f \/ a2
  /\ ws' = [ws EXCEPT ![w].pc = "store", ![w].analysis = AnalysisOf(a2)]
  /\ hist' = [hist EXCEPT ![ws[w].job].analyses = @ + 1]
  /\ UNCHANGED <<rlVars, pureVars, hs, jobs, queue, scripts, dna, sent, faultsLeft>>

\* neither frames nor audio: analyzeVideo throws 'No input provided'
AnalyzeNoInput(w) ==
  /\ ws[w].pc = "analyze"
  /\ CanFault
  /\ faultsLeft' = faultsLeft - 1
  /\ ws' = [ws EXCEPT ![w].pc = "catch", ![w].err = "No input provided"]
  /\ UNCHANGED <<rlVars, pureVars, hs, jobs, queue, scripts, dna, sent, hist>>

\* a store that surfaces the duplicate key as the attempt's error
StoreCacheRaiseMut(w) ==
  /\ Quiet
  /\ ws[w].pc = "store"
  /\ dna' = IF CacheEntry(Body(w).url) = {}
              THEN dna \cup {[reelUrlHash |-> generateReelHash(Body(w).url),
                              reelUrl |-> UrlText(Body(w).url),
                              analysis |-> ws[w].analysis]}
              ELSE dna
  /\ ws' = IF CacheEntry(Body(w).url) = {}
             THEN [ws EXCEPT ![w].pc = "context"]
             ELSE [ws EXCEPT ![w].pc = "catch", ![w].err = "E11000 duplicate key"]
  /\ UNCHANGED <<rlVars, pureVars, hs, jobs, queue, scripts, sent, hist, faultsLeft>>

\* a store that replaces the entry of the source (an upsert)
StoreCacheReplaceMut(w) ==
  /\ Quiet
  /\ ws[w].pc = "store"
  /\ dna' = (dna \ CacheEntry(Body(w).url))
              \cup {[reelUrlHash |-> generateReelHash(Body(w).url),
                     reelUrl |-> UrlText(Body(w).url),
                     analysis |-> ws[w].analysis]}
  /\ ws' = [ws EXCEPT ![w].pc = "context"]
  /\ UNCHANGED <<rlVars, pureVars, hs, jobs, queue, scripts, sent, hist, faultsLeft>>

\* lines 157-172: ReelDNA.create; a duplicate key is swallowed
StoreCache(w) ==
  /\ Quiet
  /\ ws[w].pc = "store"
  /\ dna' = IF CacheEntry(Body(w).url) = {}
              THEN dna \cup {[reelUrlHash |-> generateReelHash(Body(w).url),
                              reelUrl |-> UrlText(Body(w).url),
                              analysis |-> ws[w].analysis]}
              ELSE dna
  /\ ws' = [ws EXCEPT ![w].pc = "context"]
  /\ UNCHANGED <<rlVars, pureVars, hs, jobs, queue, scripts, sent, hist, faultsLeft>>

\* ReelDNA.create throws something else than a duplicate key: the inner
\* catch (lines 166-171) logs it and the job goes on without a cache entry
StoreCacheFails(w) ==
  /\ Quiet
  /\ ws[w].pc = "store"
  /\ CanFault
  /\ faultsLeft' = faultsLeft - 1
  /\ ws' = [ws EXCEPT ![w].pc = "context"]
  /\ UNCHANGED <<rlVars, pureVars, hs, jobs, queue, scripts, dna, sent, hist>>

\* lines 175-198: lookup of previous scripts of the reel (style context)
ContextLookup(w) ==
  /\ ws[w].pc = "context"
  /\ ws' = [ws EXCEPT ![w].pc = "generate"]
  /\ UNCHANGED <<rlVars, pureVars, hs, jobs, queue, scripts, dna, sent, hist, faultsLeft>>

\* Script.find throws: the inner catch (lines 195-198) logs it and the
\* script is generated without previous scripts
ContextLookupFails(w) ==
  /\ ws[w].pc = "context"
  /\ CanFault
  /\ faultsLeft' = faultsLeft - 1
  /\ ws' = [ws EXCEPT ![w].pc = "generate"]
  /\ UNCHANGED <<rlVars, pureVars, hs, jobs, queue, scripts, dna, sent, hist>>

\* lines 204-221: generateScript, generateScriptImage
GenerateScript(w) ==
  /\ ws[w].pc = "generate"
  /\ ws' = [ws EXCEPT ![w].pc = "publicId", ![w].analysis = "", ![w].hit = FALSE,
                      ![w].text = GeneratedText(ws[w].job, ws[w].attemptsMade),
                      ![w].image = UploadedImage(ws[w].job, ws[w].attemptsMade)]
  /\ UNCHANGED <<rlVars, pureVars, hs, jobs, queue, scripts, dna, sent, hist, faultsLeft>>

\* viewScript.ts generateUniquePublicId: one draw of the loop with its
\* Script.findOne({publicId}); after the third collision the longer token is
\* returned without a check.
DrawPublicId(w, id, longId) ==
  /\ Quiet
  /\ ws[w].pc = "publicId"
  /\ IF ScriptByPublicId(id) = {}
       THEN ws' = [ws EXCEPT ![w].pc = "save", ![w].publicId = id, ![w].tries = 0]
       ELSE IF ws[w].tries + 1 < PublicIdTries
              THEN ws' = [ws EXCEPT ![w].tries = @ + 1]
              ELSE ws' = [ws EXCEPT ![w].pc = "save", ![w].publicId = longId,
                                    ![w].tries = 0]
  /\ UNCHANGED <<rlVars, pureVars, hs, jobs, queue, scripts, dna, sent, hist, faultsLeft>>

\* lines 228-244: Script.findOneAndUpdate({requestHash}, {...}, {upsert})
UpsertScript(row) ==
  {r \in scripts : r.requestHash # row.requestHash} \cup {row}

\* a worker that goes on to deliver without having written the row
SaveScriptSkipMut(w) ==
  /\ Quiet
  /\ ws[w].pc = "save"
  /\ ws' = [ws EXCEPT ![w].pc = "dataset"]
  /\ UNCHANGED <<rlVars, pureVars, hs, jobs, queue, scripts, dna, sent, hist, faultsLeft>>

SaveScript(w) ==
  /\ Quiet
  /\ ws[w].pc = "save"
  /\ scripts' = UpsertScript(
        [requestHash |-> jobs[ws[w].job].requestHash,
         publicId |-> ws[w].publicId,
         reelUrl |-> UrlText(Body(w).url),
         userIdea |-> Body(w).idea,
         scriptText |-> ws[w].text,
         imageUrl |-> ws[w].image])
  /\ ws' = [ws EXCEPT ![w].pc = "dataset"]
  /\ UNCHANGED <<rlVars, pureVars, hs, jobs, queue, dna, sent, hist, faultsLeft>>

\* lines 246-316: DatasetEntry.create (awaited directly inside the try block)
DatasetLog(w) ==
  /\ ws[w].pc = "dataset"
  /\ ws' = [ws EXCEPT ![w].pc = "deliver"]
  /\ UNCHANGED <<rlVars, pureVars, hs, jobs, queue, scripts, dna, sent, hist, faultsLeft>>

DeliverMut(w, ok) ==
  /\ Quiet
  /\ ws[w].pc = "deliver"
  /\ sent' = [sent EXCEPT ![ws[w].job].full = @ + 1]
  /\ ws' = IF ok THEN [ws EXCEPT ![w].pc = "complete"]
                  ELSE [ws EXCEPT ![w].pc = "catch", ![w].err = "Step failed"]
  /\ UNCHANGED <<rlVars, pureVars, hs, jobs, queue, scripts, dna, hist, faultsLeft>>

\* lines 318-324: sendToManyChat with the image and the link. Its calls to
\* ManyChat carry a 30 s timeout and every failure is caught inside it
\* (manychat.ts lines 87-182): it returns normally whether the message got
\* through (ok) or not.
Deliver(w, ok) ==
  /\ Quiet
  /\ ws[w].pc = "deliver"
  /\ sent' = [sent EXCEPT ![ws[w].job].full = @ + 1]
  /\ ws' = [ws EXCEPT ![w].pc = "complete", ![w].lost = ~ok]
  /\ UNCHANGED <<rlVars, pureVars, hs, jobs, queue, scripts, dna, hist, faultsLeft>>

\* lines 326-335: Job record set to 'completed' with its result
CompleteJob(w) ==
  /\ Quiet
  /\ ws[w].pc = "complete"
  /\ jobs' = [jobs EXCEPT ![ws[w].job].status = "completed",
                          ![ws[w].job].result = <<ws[w].text, ws[w].image>>]
  /\ ws' = [ws EXCEPT ![w].pc = "finish"]
  /\ UNCHANGED <<rlVars, pureVars, hs, queue, scripts, dna, sent, hist, faultsLeft>>

\* lines 337-344 and 387-393: progress 100, return, cleanup; BullMQ completes
FinishJob(w) ==
  /\ Quiet
  /\ ws[w].pc = "finish"
  /\ queue' = [queue EXCEPT ![ws[w].job].state = "completed"]
  /\ ws' = [ws EXCEPT ![w] = IdleWorker]
  /\ UNCHANGED <<rlVars, pureVars, hs, jobs, scripts, dna, sent, hist, faultsLeft>>

\* Any awaited store / collaborator call inside the try block may throw.
ThrowPcs == {"generate", "dataset", "complete", "finish"}

\* External calls made without any timeout: yt-dlp (download), ffmpeg and
\* Gemini (extraction, analysis), generation and rendering. A call that never
\* returns leaves processJob suspended at its await.
HangPcs == {"download", "analyze", "generate"}

Hang(w) ==
  /\ ws[w].pc \in HangPcs
  /\ CanFault
  /\ faultsLeft' = faultsLeft - 1
  /\ ws' = [ws EXCEPT ![w].pc = "hung"]
  /\ UNCHANGED <<rlVars, pureVars, hs, jobs, queue, scripts, dna, sent, hist>>

StepThrows(w) ==
  /\ ws[w].pc \in ThrowPcs
  /\ CanFault
  /\ faultsLeft' = faultsLeft - 1
  /\ ws' = [ws EXCEPT ![w].pc = "catch", ![w].err = "Step failed"]
  /\ UNCHANGED <<rlVars, pureVars, hs, jobs, queue, scripts, dna, sent, hist>>

\* lines 346-393: catch block: Job record 'failed', fallback on the final
\* attempt, rethrow; BullMQ then retries or fails the job.
IsFinalAttempt(w) == ws[w].attemptsMade >= FinalAttemptsMade

CatchBlock(w) ==
  /\ Quiet
  /\ ws[w].pc = "catch"
  /\ jobs' = [jobs EXCEPT ![ws[w].job].status = "failed",
                          ![ws[w].job].error = ws[w].err]
  /\ sent' = IF IsFinalAttempt(w)
               THEN [sent EXCEPT ![ws[w].job].fallback = @ + 1]
               ELSE sent
  /\ queue' = [queue EXCEPT ![ws[w].job] = AfterFailure(queue[ws[w].job])]
  /\ ws' = [ws EXCEPT ![w] = IdleWorker]
  /\ UNCHANGED <<rlVars, pureVars, hs, scripts, dna, hist, faultsLeft>>

\* The status update inside the catch block (lines 351-359) throws: the
\* fallback is skipped and the new error propagates to BullMQ.
CatchUpdateFails(w) ==
  /\ Quiet
  /\ ws[w].pc = "catch"
  /\ queue' = [queue EXCEPT ![ws[w].job] = AfterFailure(queue[ws[w].job])]
  /\ ws' = [ws EXCEPT ![w] = IdleWorker]
  /\ UNCHANGED <<rlVars, pureVars, hs, jobs, scripts, dna, sent, hist, faultsLeft>>

Next ==
  \/ \E h \in HandlerIds, b \in Bodies : HandlerReject(h, b)
  \/ \E h \in HandlerIds, b \in Bodies : HandlerCacheHit(h, b)
  \/ \E h \in HandlerIds, b \in Bodies : HandlerStart(h, b)
  \/ \E h \in HandlerIds : HandlerFindJob(h)
  \/ \E h \in HandlerIds : HandlerCreateJob(h)
  \/ \E h \in HandlerIds : HandlerEnqueue(h)
  \/ \E h \in HandlerIds : HandlerEnqueueFails(h)
  \/ \E j \in HandlerIds : BackoffElapsed(j)
  \/ \E w \in Workers, j \in HandlerIds : ClaimJob(w, j)
  \/ \E w \in Workers, j \in HandlerIds : ClaimJobUpdateFails(w, j)
  \/ \E w \in Workers : CacheProbe(w)
  \/ \E w \in Workers : DownloadReel(w)
  \/ \E w \in Workers, e \in DownloadErrors : DownloadReelFails(w, e)
  \/ \E w \in Workers, f \in BOOLEAN, a \in BOOLEAN, a2 \in BOOLEAN :
        ExtractAndAnalyze(w, f, a, a2)
  \/ \E w \in Workers : AnalyzeNoInput(w)
  \/ \E w \in Workers : StoreCache(w)
  \/ \E w \in Workers : StoreCacheFails(w)
  \/ \E w \in Workers : ContextLookup(w)
  \/ \E w \in Workers : ContextLookupFails(w)
  \/ \E w \in Workers : GenerateScript(w)
  \/ \E w \in Workers, id \in Ids8, longId \in Ids12 : DrawPublicId(w, id, longId)
  \/ \E w \in Workers : SaveScript(w)
  \/ \E w \in Workers : DatasetLog(w)
  \/ \E w \in Workers, ok \in BOOLEAN : Deliver(w, ok)
  \/ \E w \in Workers : Hang(w)
  \/ \E w \in Workers : CompleteJob(w)
  \/ \E w \in Workers : FinishJob(w)
  \/ \E w \in Workers : StepThrows(w)
  \/ \E w \in Workers : CatchBlock(w)
  \/ \E w \in Workers : CatchUpdateFails(w)

Spec == Init /\ [][Next]_vars

\* ------------------------------------------------------- rate limiter
\* rateLimiter middleware over the RateLimit collection. One step per await:
\* the findOne (with the clock sample and the branch taken on its result) and
\* the create/save that follows. next() hands the request to the route.
Min(a, b) == IF a < b THEN a ELSE b

\* now.getTime() - record.windowStart.getTime() > WINDOW_MS
WindowExpired(t, windowStart) == t - windowStart > WINDOW_MS

OverLimitMut(count) == count > MAX_REQUESTS

\* record.count >= MAX_REQUESTS
OverLimit(count) == count >= MAX_REQUESTS

\* which way the middleware goes on the record it found
Branch(doc, t) ==
  IF ~doc.present THEN "create"
  ELSE IF WindowExpired(t, doc.windowStart) THEN "reset"
  ELSE IF OverLimit(doc.count) THEN "reject"
  ELSE "incr"

\* The fixed window as counted from the requests themselves: it opens at the
\* first request, and a request sampled more than WINDOW_MS after its start
\* opens the next one. n is the ordinal of the latest request in the window.
Counted(ip) ==
  IF gw[ip].n = 0 \/ now - gw[ip].start > WINDOW_MS
    THEN [start |-> now, n |-> 1]
    ELSE [start |-> gw[ip].start, n |-> Min(gw[ip].n + 1, MAX_REQUESTS + 2)]

Overlaps(r) == \E o \in RlSlots \ {r} : rq[o].pc # "idle"

\* a request enters the middleware; request slots are interchangeable, so r2
\* is used only while r1 is busy
Enter(r) ==
  /\ rq[r].pc = "idle"
  /\ r = "r2" => rq["r1"].pc # "idle"
  /\ Overlaps(r) => overlapsLeft > 0
  /\ overlapsLeft' = IF Overlaps(r) THEN overlapsLeft - 1 ELSE overlapsLeft

RLRead(r, ip) ==
  /\ Enter(r)
  /\ LET doc == rlDocs[ip]
         b == Branch(doc, now)
         c == Counted(ip)
     IN /\ rq' = [rq EXCEPT ![r] =
                    IF b = "reject"
                      THEN IdleRequest
                      ELSE [pc |-> b, ip |-> ip, at |-> now, snap |-> doc.count,
                            id |-> doc.id, ord |-> c.n]]
        /\ answered' = IF b = "reject" THEN [verdict |-> "429", ord |-> c.n]
                                       ELSE answered
        /\ gw' = [gw EXCEPT ![ip] = c]
  /\ rlClean' = (rlClean /\ ~Overlaps(r))
  /\ UNCHANGED <<pipeVars, pureVars, rlDocs, now, rlFaultsLeft>>

\* findOne throws: the catch block calls next()
RLReadFails(r, ip) ==
  /\ Enter(r)
  /\ rlFaultsLeft > 0
  /\ rlFaultsLeft' = rlFaultsLeft - 1
  /\ answered' = [verdict |-> "next", ord |-> Counted(ip).n]
  /\ gw' = [gw EXCEPT ![ip] = Counted(ip)]
  /\ rlClean' = FALSE
  /\ UNCHANGED <<pipeVars, pureVars, rlDocs, now, rq>>

\* next(): the request leaves the middleware and goes on to the route
PassOn(r) ==
  /\ answered' = [verdict |-> "next", ord |-> rq[r].ord]
  /\ rq' = [rq EXCEPT ![r] = IdleRequest]

\* RateLimit.create: the unique index on ip rejects a second document, and
\* the catch block then calls next()
RLCreate(r) ==
  /\ rq[r].pc = "create"
  /\ LET ip == rq[r].ip
         free == ~rlDocs[ip].present
     IN /\ rlDocs' = IF free
                       THEN [rlDocs EXCEPT ![ip] =
                               [present |-> TRUE, count |-> 1,
                                windowStart |-> rq[r].at, createdAt |-> rq[r].at,
                                id |-> rlDocs[ip].id + 1]]
                       ELSE rlDocs
        /\ rlClean' = (rlClean /\ free)
  /\ PassOn(r)
  /\ UNCHANGED <<pipeVars, pureVars, now, gw, rlFaultsLeft, overlapsLeft>>

\* record.save() writes the fields the middleware assigned to the document
\* it read; when that document is gone the save throws and the catch block
\* calls next()
RLSave(r) ==
  /\ rq[r].pc \in {"reset", "incr"}
  /\ LET ip == rq[r].ip
         there == rlDocs[ip].present /\ rlDocs[ip].id = rq[r].id
     IN /\ rlDocs' =
             IF ~there THEN rlDocs
             ELSE IF rq[r].pc = "reset"
               THEN [rlDocs EXCEPT ![ip].count = 1,
                                   ![ip].windowStart = rq[r].at,
                                   ![ip].createdAt = rq[r].at]
               ELSE [rlDocs EXCEPT ![ip].count = rq[r].snap + 1]
        /\ rlClean' = (rlClean /\ there)
  /\ PassOn(r)
  /\ UNCHANGED <<pipeVars, pureVars, now, gw, rlFaultsLeft, overlapsLeft>>

RLWriteFailsMut(r) ==
  /\ rq[r].pc \in {"create", "reset", "incr"}
  /\ rlFaultsLeft > 0
  /\ rlFaultsLeft' = rlFaultsLeft - 1
  /\ answered' = [verdict |-> "429", ord |-> rq[r].ord]
  /\ rq' = [rq EXCEPT ![r] = IdleRequest]
  /\ rlClean' = FALSE
  /\ UNCHANGED <<pipeVars, pureVars, rlDocs, now, gw, overlapsLeft>>

\* create or save throws (store unavailable): the catch block calls next()
RLWriteFails(r) ==
  /\ rq[r].pc \in {"create", "reset", "incr"}
  /\ rlFaultsLeft > 0
  /\ rlFaultsLeft' = rlFaultsLeft - 1
  /\ PassOn(r)
  /\ rlClean' = FALSE
  /\ UNCHANGED <<pipeVars, pureVars, rlDocs, now, gw, overlapsLeft>>

Tick ==
  /\ now < Horizon
  /\ now' = now + TickMs
  /\ UNCHANGED <<pipeVars, pureVars, rlDocs, rq, gw, answered, rlClean, rlFaultsLeft, overlapsLeft>>

\* TTL index on createdAt (expires: 900): the store removes the document
\* some time after it is older than TTL_SECONDS
TTLExpire(ip) ==
  /\ rlDocs[ip].present
  /\ now - rlDocs[ip].createdAt > TTL_SECONDS * 1000
  /\ rlDocs' = [rlDocs EXCEPT ![ip] = [NoDoc EXCEPT !.id = rlDocs[ip].id]]
  /\ UNCHANGED <<pipeVars, pureVars, now, rq, gw, answered, rlClean, rlFaultsLeft, overlapsLeft>>

InitRL ==
  /\ hs = [h \in HandlerIds |-> IdleHandler]
  /\ jobs = [j \in HandlerIds |-> NoJob]
  /\ queue = [j \in HandlerIds |-> NoItem]
  /\ scripts = {}
  /\ dna = {}
  /\ ws = [w \in Workers |-> IdleWorker]
  /\ sent = [j \in HandlerIds |-> [full |-> 0, fallback |-> 0]]
  /\ hist = [j \in HandlerIds |->
               [starts |-> 0, misses |-> 0, downloads |-> 0, analyses |-> 0]]
  /\ faultsLeft = 0
  /\ rlDocs = [ip \in Ips |-> NoDoc]
  /\ now = 0
  /\ rq = [r \in RlSlots |-> IdleRequest]
  /\ gw = [ip \in Ips |-> [start |-> 0, n |-> 0]]
  /\ answered = NoAnswer
  /\ rlClean = TRUE
  /\ rlFaultsLeft = RlFaults
  /\ overlapsLeft = RlOverlaps
  /\ PureInitial

NextRL ==
  \/ \E r \in RlSlots, ip \in Ips : RLRead(r, ip)
  \/ \E r \in RlSlots, ip \in Ips : RLReadFails(r, ip)
  \/ \E r \in RlSlots : RLCreate(r)
  \/ \E r \in RlSlots : RLSave(r)
  \/ \E r \in RlSlots : RLWriteFails(r)
  \/ Tick
  \/ \E ip \in Ips : TTLExpire(ip)

SpecRL == InitRL /\ [][NextRL]_vars

\* ------------------------------------------------- retry specification
\* A worker of concurrency 1 (slot w2 not started) on a queue that already
\* holds the jobs of two accepted submissions (one per request body), with a
\* larger error budget.
BodyOf(j) == IF j = 1 THEN [sub |-> "101", url |-> UrlA,  idea |-> "cooking tip"]
                      ELSE [sub |-> "202", url |-> UrlAq, idea |-> "cooking tip"]

InitRetry ==
  /\ hs = [h \in HandlerIds |->
             IF h \in {1, 2}
               THEN [pc |-> "done", body |-> BodyOf(h),
                     hash |-> BodyHash(BodyOf(h)),
                     resp |-> [kind |-> "queued", jobId |-> h],
                     lookups |-> 1]
               ELSE IdleHandler]
  /\ jobs = [j \in HandlerIds |->
               IF j \in {1, 2}
                 THEN [status |-> "queued", requestHash |-> BodyHash(BodyOf(j)),
                       attempts |-> 0, error |-> "", result |-> <<>>,
                       subscriberId |-> BodyOf(j).sub]
                 ELSE NoJob]
  /\ queue = [j \in HandlerIds |->
                IF j \in {1, 2}
                  THEN [state |-> "waiting", attemptsMade |-> 0, delay |-> 0,
                        body |-> BodyOf(j)]
                  ELSE NoItem]
  /\ scripts = {}
  /\ dna = {}
  /\ ws = [w \in Workers |->
             IF w = "w1" THEN IdleWorker ELSE [IdleWorker EXCEPT !.pc = "stopped"]]
  /\ sent = [j \in HandlerIds |-> [full |-> 0, fallback |-> 0]]
  /\ hist = [j \in HandlerIds |->
               [starts |-> 0, misses |-> 0, downloads |-> 0, analyses |-> 0]]
  /\ faultsLeft = RetryFaults
  /\ RlInitial
  /\ PureInitial

NextRetry ==
  \/ \E j \in HandlerIds : BackoffElapsed(j)
  \/ \E w \in Workers, j \in HandlerIds : ClaimJob(w, j)
  \/ \E w \in Workers, j \in HandlerIds : ClaimJobUpdateFails(w, j)
  \/ \E w \in Workers : CacheProbe(w)
  \/ \E w \in Workers : DownloadReel(w)
  \/ \E w \in Workers, e \in DownloadErrors : DownloadReelFails(w, e)
  \/ \E w \in Workers, f \in BOOLEAN, a \in BOOLEAN, a2 \in BOOLEAN :
        ExtractAndAnalyze(w, f, a, a2)
  \/ \E w \in Workers : AnalyzeNoInput(w)
  \/ \E w \in Workers : StoreCache(w)
  \/ \E w \in Workers : StoreCacheFails(w)
  \/ \E w \in Workers : ContextLookup(w)
  \/ \E w \in Workers : ContextLookupFails(w)
  \/ \E w \in Workers : GenerateScript(w)
  \/ \E w \in Workers, id \in Ids8, longId \in Ids12 : DrawPublicId(w, id, longId)
  \/ \E w \in Workers : SaveScript(w)
  \/ \E w \in Workers : DatasetLog(w)
  \/ \E w \in Workers, ok \in BOOLEAN : Deliver(w, ok)
  \/ \E w \in Workers : Hang(w)
  \/ \E w \in Workers : CompleteJob(w)
  \/ \E w \in Workers : FinishJob(w)
  \/ \E w \in Workers : StepThrows(w)
  \/ \E w \in Workers : CatchBlock(w)
  \/ \E w \in Workers : CatchUpdateFails(w)

SpecRetry == InitRetry /\ [][NextRetry]_vars

\* ---------------------------------------------- request fingerprint
\* The fingerprint the gateway computes for a request (part_016 lines 39-40):
\* generateRequestHash over subscriber_id, reel_url and user_idea as received.
\* Requests are drawn with an optional hint, which the gateway does not read.
UrlAx == [path |-> "https://instagram.com/reel/abc-x", query |-> ""]

Requests ==
  [sub : {"101", "202"}, url : {UrlA, UrlAq, UrlAx},
   idea : {"cooking tip", "x-cooking tip"}, hint : {"", "funny"}]

\* stores and queue empty, no worker busy, no error allowed
PipeIdle ==
  /\ hs = [h \in HandlerIds |-> IdleHandler]
  /\ jobs = [j \in HandlerIds |-> NoJob]
  /\ queue = [j \in HandlerIds |-> NoItem]
  /\ dna = {}
  /\ ws = [w \in Workers |-> IdleWorker]
  /\ sent = [j \in HandlerIds |-> [full |-> 0, fallback |-> 0]]
  /\ hist = [j \in HandlerIds |->
               [starts |-> 0, misses |-> 0, downloads |-> 0, analyses |-> 0]]
  /\ faultsLeft = 0

Fingerprint(a, b) ==
  /\ fps' = [a |-> a, b |-> b, ha |-> BodyHash(a), hb |-> BodyHash(b)]
  /\ UNCHANGED <<pipeVars, rlVars, views, ex, mc, br, rt, lk>>

InitHash ==
  /\ PipeIdle
  /\ scripts = {}
  /\ RlInitial
  /\ PureInitial

NextHash == \E a \in Requests, b \in Requests : Fingerprint(a, b)

SpecHash == InitHash /\ [][NextHash]_vars

\* ------------------------------------------------------- public page
\* viewScriptHandler (GET /s/:publicId). Identifiers offered to it: "A"s of
\* several lengths with one character replaced.
ViewLens == {0, 5, 6, 8, 12, 13}
ViewChars == {"A", "z", "0", "_", "-", "/", ".", " ", "%"}
IdOf(n, c, k) == [i \in 1..n |-> IF i = k THEN c ELSE "A"]
ViewIds == {IdOf(n, c, k) : n \in ViewLens, c \in ViewChars, k \in {1, 12}}

Upper == {"A","B","C","D","E","F","G","H","I","J","K","L","M",
          "N","O","P","Q","R","S","T","U","V","W","X","Y","Z"}
Lower == {"a","b","c","d","e","f","g","h","i","j","k","l","m",
          "n","o","p","q","r","s","t","u","v","w","x","y","z"}
Digits == {"0","1","2","3","4","5","6","7","8","9"}
Base64UrlChars == Upper \cup Lower \cup Digits \cup {"_", "-"}

\* publicId && /^[A-Za-z0-9_-]{6,12}$/.test(publicId)
ValidPublicId(id) ==
  /\ Len(id) >= 6
  /\ Len(id) <= 12
  /\ \A i \in 1..Len(id) : id[i] \in Base64UrlChars

\* generateErrorPage(message): the fixed error template around the message
\* (escapeHtml leaves the three messages used here as they are)
generateErrorPage(message) == <<"error-page", message>>
generateScriptPage(scriptText, userIdea) == <<"script-page", scriptText, userIdea>>

ViewScript(v, id) ==
  /\ views' = [views EXCEPT ![v] =
       IF ~ValidPublicId(id)
         THEN [id |-> id, status |-> 400,
               page |-> generateErrorPage("Invalid script link"), lookups |-> 0]
       ELSE IF ScriptByPublicId(id) = {}
         THEN [id |-> id, status |-> 404,
               page |-> generateErrorPage("Script not found or expired"),
               lookups |-> 1]
       ELSE LET row == CHOOSE r \in ScriptByPublicId(id) : TRUE
            IN [id |-> id, status |-> 200,
                page |-> generateScriptPage(row.scriptText, row.userIdea),
                lookups |-> 1]]
  /\ UNCHANGED <<pipeVars, rlVars, fps, ex, mc, br, rt, lk>>

\* Script.findOne throws: the catch block answers 500
ViewScriptFails(v, id) ==
  /\ ValidPublicId(id)
  /\ views' = [views EXCEPT ![v] =
       [id |-> id, status |-> 500,
        page |-> generateErrorPage("Something went wrong"), lookups |-> 1]]
  /\ UNCHANGED <<pipeVars, rlVars, fps, ex, mc, br, rt, lk>>

\* a Script row as processJob writes it
StoredRow ==
  [requestHash |-> BodyHash([sub |-> "101", url |-> UrlA, idea |-> "cooking tip"]),
   publicId |-> Rep("A", 8),
   reelUrl |-> UrlText(UrlA),
   userIdea |-> "cooking tip",
   scriptText |-> GeneratedText(1, 0),
   imageUrl |-> UploadedImage(1, 0)]

InitView ==
  /\ PipeIdle
  /\ scripts \in {{}, {StoredRow}}
  /\ RlInitial
  /\ PureInitial

NextView ==
  \/ \E v \in ViewSlots, id \in ViewIds : ViewScript(v, id)
  \/ \E v \in ViewSlots, id \in ViewIds : ViewScriptFails(v, id)

SpecView == InitView /\ [][NextView]_vars

\* --------------------------------------- extraction, analysis, generation
\* One attempt of processJob between the download and the generated script
\* (lines 99-155 and 204-212), with analyzeVideo and generateScript step by
\* step. The cache store and the previous-script lookup in between (lines
\* 157-198) never stop the attempt and are left to the pipeline above.
AnalysisModes == {"hybrid", "frames", "audio"}

MODEL_HIERARCHY ==
  <<"gemini-2.5-flash", "gemini-2.5-flash-lite",
    "gemini-1.5-flash", "gemini-1.5-flash-8b">>

\* VideoAnalysis values a backend may return; a null transcript is written ""
\* (null and '' are both falsy wherever the transcript is tested)
Analyses ==
  {[transcript |-> t, visualCues |-> c[1], hookType |-> c[2], tone |-> c[3],
    sceneDescriptions |-> c[4]] :
      t \in {"", "spoken words"},
      c \in {<<(<<"close-up">>), "Negative visual", "High Energy", (<<"scene 1">>)>>,
             <<(<<>>), "Unknown", "Unknown", (<<>>)>>}}

\* errors of one backend call: status 403, 429, 500, or an unparsable answer
ModelFailures == {"403", "429", "500", "Invalid JSON response from Gemini"}

NoCall == [frames |-> FALSE, audioPath |-> FALSE, includeAudio |-> FALSE, made |-> FALSE]
NoAnalysis == [transcript |-> "", visualCues |-> <<>>, hookType |-> "", tone |-> "",
               sceneDescriptions |-> <<>>]

\* the attempt right after downloadReel returned the video path
Downloaded(mode) ==
  [pc |-> "downloaded", mode |-> mode,
   frameTask |-> "none", audioTask |-> "none",
   frames |-> FALSE, audioPath |-> FALSE, retried |-> FALSE,
   call |-> NoCall, audioPart |-> FALSE,
   idx |-> 0, tried |-> <<>>, lastError |-> "",
   analysis |-> NoAnalysis, referenceDNA |-> <<>>, script |-> <<>>, err |-> ""]

exFrame == <<pipeVars, rlVars, fps, views, mc, br, rt, lk>>

\* lines 102-116: extractFrames is called, then (hybrid mode) extractAudio,
\* with no await in between; both promises are handed to Promise.all
LaunchExtraction ==
  /\ ex.pc = "downloaded"
  /\ ex.mode \in {"hybrid", "frames"}
  /\ ex' = [ex EXCEPT !.pc = "await", !.frameTask = "running",
                      !.audioTask = IF ex.mode = "hybrid" THEN "running" ELSE "none"]
  /\ UNCHANGED exFrame

\* extractFrames resolves with its frames, or with an empty list
FrameTaskEnds(r) ==
  /\ ex.pc = "await"
  /\ ex.frameTask = "running"
  /\ ex' = [ex EXCEPT !.frameTask = r]
  /\ UNCHANGED exFrame

\* audioExtractor.ts extractAudio: resolves with the path on 'end' and with
\* null on 'error'; it never rejects
AudioTaskEnds(r) ==
  /\ ex.pc = "await"
  /\ ex.audioTask = "running"
  /\ ex' = [ex EXCEPT !.audioTask = r]
  /\ UNCHANGED exFrame

\* Promise.all resolves when both promises have resolved
BothSettledMut(e) == e.frameTask # "running"

BothSettled(e) == e.frameTask # "running" /\ e.audioTask # "running"

\* lines 113-125: the join and the assignments of frames and audioPath
Join ==
  /\ ex.pc = "await"
  /\ BothSettled(ex)
  /\ ex' = [ex EXCEPT !.pc = "joined",
                      !.frames = (ex.frameTask = "frames"),
                      !.audioPath = (ex.audioTask = "path")]
  /\ UNCHANGED exFrame

\* lines 141-144: no frames and no audio path: extractAudio is run again
RetryAudio(r) ==
  /\ ex.pc = "joined"
  /\ ~ex.frames /\ ~ex.audioPath /\ ~ex.retried
  /\ ex' = [ex EXCEPT !.audioPath = (r = "path"), !.retried = TRUE,
                      !.audioTask = r]
  /\ UNCHANGED exFrame

\* lines 150-151: audio-only mode extracts the audio alone
AudioOnly(r) ==
  /\ ex.pc = "downloaded"
  /\ ex.mode = "audio"
  /\ ex' = [ex EXCEPT !.pc = "joined", !.audioPath = (r = "path"),
                      !.retried = TRUE, !.audioTask = r]
  /\ UNCHANGED exFrame

\* line 134: includeAudio: !!audioPath
IncludeAudioMut(audioPath) == TRUE

IncludeAudio(audioPath) == audioPath

\* lines 131-135 (frames), 145 and 152 (audio alone): analyzeVideo is called
InvokeAnalysis ==
  /\ ex.pc = "joined"
  /\ ex.frames \/ ex.audioPath \/ ex.retried
  /\ ex' = [ex EXCEPT !.pc = "validate",
              !.call = IF ex.frames
                         THEN [frames |-> TRUE, audioPath |-> ex.audioPath,
                               includeAudio |-> IncludeAudio(ex.audioPath),
                               made |-> TRUE]
                         ELSE [frames |-> FALSE, audioPath |-> ex.audioPath,
                               includeAudio |-> TRUE, made |-> TRUE]]
  /\ UNCHANGED exFrame

\* analyzeVideo lines 105-129: input validation, then the parts are read
NoInput(call) == ~call.frames /\ ~call.audioPath

Validate ==
  /\ ex.pc = "validate"
  /\ IF NoInput(ex.call)
       THEN ex' = [ex EXCEPT !.pc = "failed",
                     !.err = "No input provided for analysis (frames or audio)"]
       ELSE ex' = [ex EXCEPT !.pc = "models", !.idx = 1,
                     !.audioPart = (ex.call.includeAudio /\ ex.call.audioPath)]
  /\ UNCHANGED exFrame

\* lines 150-200: one pass of the loop over MODEL_HIERARCHY; the backend
\* answers with an analysis, which is returned, or fails, and the loop goes on
NextModelMut(i) == i + 2

NextModel(i) == i + 1

TryModelReturns(a) ==
  /\ ex.pc = "models"
  /\ ex.idx <= Len(MODEL_HIERARCHY)
  /\ ex' = [ex EXCEPT !.pc = "analysed", !.analysis = a,
                      !.tried = Append(@, MODEL_HIERARCHY[ex.idx])]
  /\ UNCHANGED exFrame

TryModelFails(e) ==
  /\ ex.pc = "models"
  /\ ex.idx <= Len(MODEL_HIERARCHY)
  /\ ex' = [ex EXCEPT !.idx = NextModel(@), !.lastError = e,
                      !.tried = Append(@, MODEL_HIERARCHY[ex.idx])]
  /\ UNCHANGED exFrame

\* lines 203-205: the list is exhausted, the last error is thrown
AllModelsFailed ==
  /\ ex.pc = "models"
  /\ ex.idx > Len(MODEL_HIERARCHY)
  /\ ex' = [ex EXCEPT !.pc = "failed", !.err = ex.lastError]
  /\ UNCHANGED exFrame

\* scriptGenerator.ts lines 59-83: the sections of the reference text
ReferenceDNA(transcriptText, visualAnalysis) ==
  LET sections ==
        (IF transcriptText # "" THEN <<"TRANSCRIPT">> ELSE <<>>)
        \o (IF Len(visualAnalysis.visualCues) > 0 THEN <<"VISUAL HOOKS">> ELSE <<>>)
        \o (IF visualAnalysis.hookType # "" /\ visualAnalysis.hookType # "Unknown"
              THEN <<"HOOK PATTERN">> ELSE <<>>)
        \o (IF visualAnalysis.tone # "" /\ visualAnalysis.tone # "Unknown"
              THEN <<"DETECTED TONE">> ELSE <<>>)
        \o (IF Len(visualAnalysis.sceneDescriptions) > 0 THEN <<"SCENE FLOW">> ELSE <<>>)
  IN IF sections = <<>> THEN <<"No reference provided">> ELSE sections

\* part_014 lines 137-153 and 204-212: transcript = videoAnalysis.transcript,
\* generateScript({userIdea, transcript, visualAnalysis}) builds its prompt
InvokeGenerate ==
  /\ ex.pc = "analysed"
  /\ ex' = [ex EXCEPT !.pc = "generating",
              !.referenceDNA = ReferenceDNA(ex.analysis.transcript, ex.analysis)]
  /\ UNCHANGED exFrame

\* scriptGenerator.ts lines 125-132: the model call returns the script, or
\* throws and the error is rethrown
GenerateReturns ==
  /\ ex.pc = "generating"
  /\ ex' = [ex EXCEPT !.pc = "generated", !.script = <<"script", ex.referenceDNA>>]
  /\ UNCHANGED exFrame

GenerateThrows ==
  /\ ex.pc = "generating"
  /\ ex' = [ex EXCEPT !.pc = "failed", !.err = "Script generation failed"]
  /\ UNCHANGED exFrame

InitExtract ==
  /\ PipeIdle
  /\ scripts = {}
  /\ RlInitial
  /\ fps = NoFps
  /\ views = [v \in ViewSlots |-> NoView]
  /\ mc = NoMc
  /\ br = NoBr /\ rt = NoRt /\ lk = NoLk
  /\ ex \in {Downloaded(m) : m \in AnalysisModes}

NextExtract ==
  \/ LaunchExtraction
  \/ \E r \in {"frames", "empty"} : FrameTaskEnds(r)
  \/ \E r \in {"path", "null"} : AudioTaskEnds(r)
  \/ Join
  \/ \E r \in {"path", "null"} : RetryAudio(r)
  \/ \E r \in {"path", "null"} : AudioOnly(r)
  \/ InvokeAnalysis
  \/ Validate
  \/ \E a \in Analyses : TryModelReturns(a)
  \/ \E e \in ModelFailures : TryModelFails(e)
  \/ AllModelsFailed
  \/ InvokeGenerate
  \/ GenerateReturns
  \/ GenerateThrows

SpecExtract == InitExtract /\ [][NextExtract]_vars


\* ------------------------------------------------------- sendToManyChat
\* One invocation of sendToManyChat (manychat.ts lines 70-183), call by call.
\* Payloads: the delivery of processJob (image field, with the script link),
\* the same without a link, and the fallback of the catch block.
Payloads ==
  [subscriber_id : {"101", "202", "abc"},
   field_name : {"script_image_url", "AI_Script_Result"},
   scriptUrl : {"", "https://host/s/AAAAAAAA"}]

\* parseInt(subscriber_id, 10) is NaN
IsNaNId(id) == id \notin {"101", "202"}

\* outcome of one axios.post: 2xx, an error status, or the 30 s timeout
CallOutcomes == {"ok", "status", "timeout"}

Called(payload, apiKey, fieldIdSet) ==
  [pc |-> "entry", payload |-> payload, apiKey |-> apiKey,
   fieldIdSet |-> fieldIdSet, fieldId |-> "",
   field |-> "none", image |-> "none", link |-> "none"]

mcFrame == <<pipeVars, rlVars, fps, views, ex, br, rt, lk>>

\* lines 72-85: no API key, or a subscriber id that is not a number: return
EntryChecks ==
  /\ mc.pc = "entry"
  /\ mc' = [mc EXCEPT !.pc = IF ~mc.apiKey \/ IsNaNId(mc.payload.subscriber_id)
                               THEN "returned" ELSE "setField"]
  /\ UNCHANGED mcFrame

\* lines 90-106: setCustomField. Its failure is caught by the outer catch
\* (lines 179-182), which ends the invocation.
SetField(o) ==
  /\ mc.pc = "setField"
  /\ mc' = [mc EXCEPT
       !.field = o,
       !.fieldId = IF mc.fieldIdSet THEN "MANYCHAT_SCRIPT_FIELD_ID"
                                    ELSE mc.payload.field_name,
       !.pc = IF o = "ok" /\ mc.payload.field_name = "script_image_url"
                THEN "image" ELSE "returned"]
  /\ UNCHANGED mcFrame

\* lines 108-140: the image message, with a try/catch of its own
SendImage(o) ==
  /\ mc.pc = "image"
  /\ mc' = [mc EXCEPT !.image = o,
                      !.pc = IF mc.payload.scriptUrl # "" THEN "link" ELSE "returned"]
  /\ UNCHANGED mcFrame

\* lines 142-174: the copy-link message, with a try/catch of its own
SendLink(o) ==
  /\ mc.pc = "link"
  /\ mc' = [mc EXCEPT !.link = o, !.pc = "returned"]
  /\ UNCHANGED mcFrame

InitManyChat ==
  /\ PipeIdle
  /\ scripts = {}
  /\ RlInitial
  /\ fps = NoFps
  /\ views = [v \in ViewSlots |-> NoView]
  /\ ex = NoEx
  /\ br = NoBr /\ rt = NoRt /\ lk = NoLk
  /\ mc \in {Called(p, k, f) : p \in Payloads, k \in BOOLEAN, f \in BOOLEAN}

NextManyChat ==
  \/ EntryChecks
  \/ \E o \in CallOutcomes : SetField(o)
  \/ \E o \in CallOutcomes : SendImage(o)
  \/ \E o \in CallOutcomes : SendLink(o)

SpecManyChat == InitManyChat /\ [][NextManyChat]_vars


\* ------------------------------------------------------ rendering engine
\* services/browser.ts: the module variable browserInstance, getBrowser and
\* closeBrowser. Engine instances are numbered in the order their launches
\* resolve; 0 stands for null.
BrowserCallers == {"job1", "job2"}

RunningBrowser ==
  [pc |-> "run", browserInstance |-> 0, launched |-> 0, live |-> {},
   disconnects |-> 0, closer |-> "idle", closing |-> 0,
   callers |-> [c \in BrowserCallers |-> [pc |-> "idle", got |-> 0]]]

brFrame == <<pipeVars, rlVars, fps, views, ex, mc, rt, lk>>

NotExited == br.pc = "run" /\ br.closer # "exited"

\* lines 8-14: the handle is returned if set; otherwise puppeteer.launch is
\* called and awaited
GetBrowser(c) ==
  /\ NotExited
  /\ br.callers[c].pc = "idle"
  /\ br.browserInstance = 0 => br.launched < MaxLaunches
  /\ br' = [br EXCEPT !.callers[c] =
              IF br.browserInstance # 0
                THEN [pc |-> "holding", got |-> br.browserInstance]
                ELSE [pc |-> "launching", got |-> 0]]
  /\ UNCHANGED brFrame

\* lines 16-32: the launch resolves; the new instance is assigned to
\* browserInstance, its 'disconnected' handler is registered, it is returned
LaunchResolves(c) ==
  /\ NotExited
  /\ br.callers[c].pc = "launching"
  /\ LET n == br.launched + 1
     IN br' = [br EXCEPT !.launched = n, !.live = @ \cup {n},
                         !.browserInstance = n,
                         !.callers[c] = [pc |-> "holding", got |-> n]]
  /\ UNCHANGED brFrame

\* puppeteer.launch rejects: getBrowser throws, nothing is assigned
LaunchRejects(c) ==
  /\ NotExited
  /\ br.callers[c].pc = "launching"
  /\ br' = [br EXCEPT !.callers[c] = [pc |-> "idle", got |-> 0]]
  /\ UNCHANGED brFrame

\* the caller is done with the handle it got
Release(c) ==
  /\ NotExited
  /\ br.callers[c].pc = "holding"
  /\ br' = [br EXCEPT !.callers[c] = [pc |-> "idle", got |-> 0]]
  /\ UNCHANGED brFrame

\* lines 27-30: instance b disconnects; its handler sets browserInstance to
\* null, whatever browserInstance holds
Disconnected(b) ==
  /\ NotExited
  /\ b \in br.live
  /\ br' = [br EXCEPT !.live = @ \ {b}, !.browserInstance = 0,
                      !.disconnects = @ + 1]
  /\ UNCHANGED brFrame

\* index.ts lines 36-54 and closeBrowser lines 35-41: on a signal the handle,
\* if set, is closed and awaited
CloseBrowser ==
  /\ NotExited
  /\ br.closer = "idle"
  /\ br' = IF br.browserInstance # 0
             THEN [br EXCEPT !.closer = "closing", !.closing = br.browserInstance]
             ELSE [br EXCEPT !.closer = "exited"]
  /\ UNCHANGED brFrame

\* close() has resolved (the instance has disconnected): browserInstance is
\* set to null and the process exits
CloseResolves ==
  /\ NotExited
  /\ br.closer = "closing"
  /\ br.closing \notin br.live
  /\ br' = [br EXCEPT !.browserInstance = 0, !.closer = "exited"]
  /\ UNCHANGED brFrame

InitBrowser ==
  /\ PipeIdle
  /\ scripts = {}
  /\ RlInitial
  /\ fps = NoFps
  /\ views = [v \in ViewSlots |-> NoView]
  /\ ex = NoEx /\ mc = NoMc /\ rt = NoRt /\ lk = NoLk
  /\ br = RunningBrowser

NextBrowser ==
  \/ \E c \in BrowserCallers : GetBrowser(c)
  \/ \E c \in BrowserCallers : LaunchResolves(c)
  \/ \E c \in BrowserCallers : LaunchRejects(c)
  \/ \E c \in BrowserCallers : Release(c)
  \/ \E b \in 1..MaxLaunches : Disconnected(b)
  \/ CloseBrowser
  \/ CloseResolves

SpecBrowser == InitBrowser /\ [][NextBrowser]_vars


\* ========================================================== properties
JobIds == {j \in HandlerIds : jobs[j].status # "none"}

SameSource(j1, j2) ==
  normalizeInstagramUrl(hs[j1].body.url) = normalizeInstagramUrl(hs[j2].body.url)

\* C1: concurrent submissions of one fingerprint, with no Script stored yet,
\* leave exactly one Job record and one work item: there are never two queued
\* Job records of the same requestHash.
C1_SingleFlight ==
  \A j1, j2 \in JobIds :
     (j1 # j2 /\ jobs[j1].requestHash = jobs[j2].requestHash)
        => ~(jobs[j1].status = "queued" /\ jobs[j2].status = "queued")

\* C2: a submission whose fingerprint already has a stored Script is answered
\* 'cached' with that row's text and image in the same step, creates no Job
\* and enqueues nothing, and the store never holds two rows of one fingerprint.
C2_CachedAnswer ==
  /\ [](\A h \in HandlerIds :
          hs[h].resp.kind = "cached"
             => jobs[h].status = "none" /\ queue[h].state = "none")
  /\ [](\A r1, r2 \in scripts : r1.requestHash = r2.requestHash => r1 = r2)
  /\ [][\A h \in HandlerIds :
          (/\ hs[h].pc = "new"
           /\ hs'[h].pc # "new"
           /\ \E r \in scripts : r.requestHash = hs'[h].hash)
          => /\ hs'[h].resp.kind = "cached"
             /\ \E r \in scripts :
                  /\ r.requestHash = hs'[h].hash
                  /\ hs'[h].resp.script = r.scriptText
                  /\ hs'[h].resp.imageUrl = r.imageUrl
             /\ jobs' = jobs /\ queue' = queue /\ scripts' = scripts]_vars

\* a second submission answered from the store with the completed job's result
C2_Witness ==
  \E h \in HandlerIds : \E j \in JobIds :
     /\ hs[h].resp.kind = "cached"
     /\ jobs[j].status = "completed"
     /\ jobs[j].requestHash = hs[h].hash
     /\ <<hs[h].resp.script, hs[h].resp.imageUrl>> = jobs[j].result

\* C3: every job hands exactly one terminal result (full or fallback) to the
\* messaging collaborator: never more than one, and one once the queue is
\* done with the job.
C3_ExactlyOneDelivery ==
  \A j \in HandlerIds :
     /\ sent[j].full + sent[j].fallback <= 1
     /\ queue[j].state \in {"completed", "failed"}
          => sent[j].full + sent[j].fallback = 1

\* C4 (as claimed): two jobs of distinct fingerprints and one normalized
\* source download and analyse the source once in total.
C4_AnalysedOnce ==
  \A j1, j2 \in JobIds :
     (j1 # j2 /\ jobs[j1].requestHash # jobs[j2].requestHash /\ SameSource(j1, j2))
        => /\ hist[j1].downloads + hist[j2].downloads <= 1
           /\ hist[j1].analyses + hist[j2].analyses <= 1

\* C4 (amended): a job downloads and analyses only in attempts whose cache
\* probe found no entry for the normalized source; every probe made once an
\* entry is stored reuses it, whoever stored it, and the cache holds one entry
\* per normalized source.
C4_ReuseAfterStore ==
  /\ \A j \in HandlerIds :
        /\ hist[j].downloads <= hist[j].misses
        /\ hist[j].analyses <= hist[j].downloads
  /\ \A e1, e2 \in dna : e1.reelUrlHash = e2.reelUrlHash => e1 = e2

\* a job of another fingerprint completed from the cached analysis alone
C4_Witness ==
  \E j1, j2 \in JobIds :
     /\ jobs[j1].requestHash # jobs[j2].requestHash
     /\ SameSource(j1, j2)
     /\ hist[j1].analyses = 1
     /\ hist[j2].downloads = 0
     /\ jobs[j2].status = "completed"

\* C5: no two Script rows carry the same publicId.
C5_UniquePublicId ==
  \A r1, r2 \in scripts : r1.publicId = r2.publicId => r1 = r2

\* C7: a job failed by the duration bound is not retried: the queue has
\* failed it and the fallback has been sent on that attempt.
C7_TooLongNoRetry ==
  \A j \in JobIds :
     (jobs[j].status = "failed" /\ jobs[j].error = "Video too long")
        => queue[j].state = "failed" /\ sent[j].fallback = 1

\* C8: a job is started at most 3 times, Job.attempts never exceeds 3, no
\* attempt follows the third failure, and retries wait 1000 ms, then 2000 ms.
C8_AtMostThreeAttempts ==
  \A j \in HandlerIds :
     /\ hist[j].starts <= 3
     /\ jobs[j].attempts <= 3
     /\ queue[j].attemptsMade <= hist[j].starts
     /\ queue[j].attemptsMade = 3 => queue[j].state = "failed"
     /\ queue[j].state = "delayed"
          => queue[j].delay = (IF queue[j].attemptsMade = 1 THEN 1000 ELSE 2000)

\* a job whose third attempt failed
C8_Witness ==
  \E j \in JobIds :
     /\ hist[j].starts = 3
     /\ jobs[j].attempts = 3
     /\ queue[j].state = "failed"

\* C9: once the fallback has been sent for a job, a Script row exists for the
\* job's fingerprint.
C9_FallbackPersisted ==
  \A j \in JobIds :
     sent[j].fallback > 0
        => \E r \in scripts : r.requestHash = jobs[j].requestHash

\* C10: a Job record that is completed or failed is never changed again.
C10_TerminalStatus ==
  [][\A j \in HandlerIds :
        jobs[j].status \in {"completed", "failed"}
           => jobs'[j].status = jobs[j].status]_vars

RetryPending(hash) ==
  {j \in HandlerIds : /\ jobs[j].requestHash = hash
                      /\ queue[j].state \in {"delayed", "waiting", "active"}
                      /\ queue[j].attemptsMade >= 1}

C11_OneActiveJob ==
  [][\A h \in HandlerIds :
        (/\ hs[h].pc = "findJob"
         /\ hs'[h].pc # "findJob"
         /\ RetryPending(hs[h].hash) # {})
        => /\ hs'[h].resp.kind = "already"
           /\ hs'[h].resp.jobId \in RetryPending(hs[h].hash)]_vars

\* C12: a Script row, once written, keeps its publicId and its script text:
\* every later state has a row of that fingerprint with the same publicId and
\* the same text.
C12_PublicIdImmutable ==
  [][\A r \in scripts :
        \E r2 \in scripts' : /\ r2.requestHash = r.requestHash
                             /\ r2.publicId = r.publicId
                             /\ r2.scriptText = r.scriptText]_vars

\* C13: two requests get the same fingerprint exactly when they agree on
\* identity, normalized source reference, idea text and hint.
SameLogicalRequest(a, b) ==
  /\ a.sub = b.sub
  /\ normalizeInstagramUrl(a.url) = normalizeInstagramUrl(b.url)
  /\ a.idea = b.idea
  /\ a.hint = b.hint

C13_FingerprintIff ==
  fps # NoFps => ((fps.ha = fps.hb) <=> SameLogicalRequest(fps.a, fps.b))

\* C15: a request whose identifier fails the format check makes no store
\* lookup and gets the not-found response.
NotFoundResponse ==
  [status |-> 404, page |-> generateErrorPage("Script not found or expired")]

C15_MalformedNoLookup ==
  \A v \in ViewSlots :
     (views[v] # NoView /\ ~ValidPublicId(views[v].id))
        => /\ views[v].lookups = 0
           /\ views[v].status = NotFoundResponse.status
           /\ views[v].page = NotFoundResponse.page

\* C16: the response to a malformed identifier equals the response to a
\* well-formed identifier that has no stored artifact (status and body).
C16_MalformedLikeMissing ==
  \A v1, v2 \in ViewSlots :
     (/\ views[v1] # NoView /\ ~ValidPublicId(views[v1].id)
      /\ views[v2] # NoView /\ ValidPublicId(views[v2].id)
      /\ ScriptByPublicId(views[v2].id) = {}
      /\ views[v2].status # 500)
        => /\ views[v1].status = views[v2].status
           /\ views[v1].page = views[v2].page

\* C14: sendToManyChat returns normally whether or not its calls got through:
\* after the delivery step the worker is at the 'completed' update of the
\* same job, and a job whose delivery failed is marked completed and is
\* completed in the queue, not retried.
C14_DeliveryFailureIsolated ==
  /\ [][\A w \in Workers :
          (ws[w].pc = "deliver" /\ ws'[w] # ws[w])
             => ws'[w].pc = "complete" /\ ws'[w].job = ws[w].job]_vars
  /\ [][\A w \in Workers :
          (ws[w].pc = "complete" /\ ws[w].lost /\ ws'[w].pc = "finish")
             => jobs'[ws[w].job].status = "completed"]_vars
  /\ [][\A w \in Workers :
          (ws[w].pc = "finish" /\ ws[w].lost /\ ws'[w].pc = "idle")
             => queue'[ws[w].job].state = "completed"]_vars

\* a job marked completed although its delivery did not get through
C14_Witness ==
  \E w \in Workers :
     /\ ws[w].pc = "finish"
     /\ ws[w].lost
     /\ jobs[ws[w].job].status = "completed"
     /\ sent[ws[w].job].full = 1

\* C17: whenever a store operation of the limiter fails (the store is
\* unavailable, the create hits the unique index, the save finds its document
\* gone), the request is passed on with next() and leaves the middleware.
LimiterErrorStep ==
  \/ rlFaultsLeft' < rlFaultsLeft
  \/ \E r \in RlSlots : /\ rq[r].pc = "create" /\ rq'[r].pc = "idle"
                         /\ rlDocs[rq[r].ip].present
  \/ \E r \in RlSlots : /\ rq[r].pc \in {"reset", "incr"} /\ rq'[r].pc = "idle"
                         /\ ~(/\ rlDocs[rq[r].ip].present
                              /\ rlDocs[rq[r].ip].id = rq[r].id)

C17_FailOpen ==
  [][LimiterErrorStep
       => /\ answered'.verdict = "next"
          /\ \A r \in RlSlots : rq'[r] = rq[r] \/ rq'[r].pc = "idle"]_vars

\* a request beyond the limit of its window passed on because the store failed
C17_Witness ==
  /\ rlFaultsLeft < RlFaults
  /\ answered.verdict = "next"
  /\ answered.ord > MAX_REQUESTS

\* C18: a submission whose body fails validation is answered 400, makes no
\* Script lookup, and leaves Job collection, queue and Script collection as
\* they were.
C18_InvalidRejected ==
  /\ [](\A h \in HandlerIds :
          (hs[h].pc # "new" /\ ~ValidBody(hs[h].body))
             => /\ hs[h].pc = "done"
                /\ hs[h].resp.kind = "invalid"
                /\ hs[h].resp.status = 400
                /\ hs[h].lookups = 0
                /\ jobs[h].status = "none"
                /\ queue[h].state = "none")
  /\ [][\A h \in HandlerIds :
          (hs[h].pc = "new" /\ hs'[h].pc # "new" /\ ~ValidBody(hs'[h].body))
             => jobs' = jobs /\ queue' = queue /\ scripts' = scripts]_vars

\* a body with an idea of three characters rejected next to an accepted one
C18_Witness ==
  \E h1, h2 \in HandlerIds :
     /\ hs[h1].resp.kind = "invalid"
     /\ hs[h1].body.idea = "tip"
     /\ hs[h2].resp.kind = "queued"

\* C19: no worker slot stays suspended in an external call for ever.
C19_NoHungSlot ==
  \A w \in Workers : ws[w].pc # "hung"

\* C20: a failure of an optional-context step (cache store, previous-script
\* lookup, dataset logging) never takes the attempt to the catch block.
OptionalPcs == {"store", "context", "dataset"}

C20_OptionalAbsorbed ==
  [][\A w \in Workers :
        ws[w].pc \in OptionalPcs => ws'[w].pc # "catch"]_vars

\* ---- extraction, analysis and generation of one attempt (SpecExtract)
\* the attempt has joined its extraction tasks with frames and no audio path
FramesOnly(e) ==
  /\ e.pc \notin {"none", "downloaded", "await"}
  /\ e.frames
  /\ ~e.audioPath

\* analyzeVideo threw (as opposed to generateScript)
AnalysisRaised(e) == e.pc = "failed" /\ e.err # "Script generation failed"

\* C21: when extraction yields frames but no audio, analyzeVideo is called
\* with the frames only (no audio path, includeAudio false, no audio part is
\* read); the attempt fails only if every analysis backend or the generation
\* call itself fails; once an analysis has been returned generateScript is
\* invoked, whatever the transcript, and with an empty transcript its prompt
\* carries no transcript section and the returned script is built from it.
C21_FramesOnly ==
  [][FramesOnly(ex') =>
       /\ ex'.call.made =>
            ex'.call = [frames |-> TRUE, audioPath |-> FALSE,
                        includeAudio |-> FALSE, made |-> TRUE]
       /\ ~ex'.audioPart
       /\ ex'.pc = "failed" =>
            \/ Len(ex'.tried) = Len(MODEL_HIERARCHY)
            \/ ex.pc = "generating"
       /\ ex.pc = "analysed" => ex'.pc = "generating"
       /\ (ex'.pc = "generating" /\ ex'.analysis.transcript = "") =>
            \A i \in 1..Len(ex'.referenceDNA) : ex'.referenceDNA[i] # "TRANSCRIPT"
       /\ ex'.pc = "generated" => ex'.script = <<"script", ex'.referenceDNA>>]_vars

C21_Witness ==
  /\ ex.pc = "generated"
  /\ FramesOnly(ex)
  /\ ex.analysis.transcript = ""
  /\ ex.referenceDNA[1] = "VISUAL HOOKS"

\* C22: when frame extraction yields no frames and audio extraction yields
\* no audio, the attempt is not failed.
C22_TotalFailureProceeds ==
  (ex.pc \notin {"none", "downloaded", "await"}
     /\ ex.frameTask = "empty" /\ ~ex.audioPath)
  => ex.pc # "failed"

IsPrefix(s, t) == Len(s) <= Len(t) /\ \A i \in 1..Len(s) : s[i] = t[i]

C29_JoinBeforeAnalysis ==
  /\ (ex.pc # "none" /\ ex.mode = "hybrid"
        /\ (ex.frameTask \in {"frames", "empty"} \/ ex.audioTask \in {"path", "null"}))
     => (ex.frameTask # "none" /\ ex.audioTask # "none")
  /\ (ex.pc # "none" /\ ex.call.made)
     => (ex.frameTask # "running" /\ ex.audioTask # "running")

C29_Witness ==
  /\ ex.pc = "validate"
  /\ ex.mode = "hybrid"
  /\ ex.frameTask = "empty"
  /\ ex.audioTask = "path"

\* ---- one delivery through sendToManyChat (SpecManyChat)
\* the delivery of processJob: image field and script link, to a numeric
\* subscriber, with the API key configured
FullDelivery(m) ==
  /\ m.apiKey
  /\ ~IsNaNId(m.payload.subscriber_id)
  /\ m.payload.field_name = "script_image_url"
  /\ m.payload.scriptUrl # ""

\* C27: in one delivery the field update, the image message and the link
\* message are each attempted, whichever of them fails.
C27_IsolatedCalls ==
  (mc.pc = "returned" /\ FullDelivery(mc)) =>
     (mc.field # "none" /\ mc.image # "none" /\ mc.link # "none")

\* ---- Tier-1 cache (Spec)
\* C23: an attempt whose cache probe hit is never in the download, the
\* extraction and analysis or the cache store step; no step of it changes the
\* cache or the job's counts of downloads and analyses; and up to the call of
\* generateScript it holds the analysis of the stored entry of its source.
C23_HitSkipsProcessing ==
  [][\A w \in Workers :
       /\ ws'[w].hit =>
            /\ ws'[w].pc \notin {"probe", "download", "analyze", "store"}
            /\ \E e \in dna' :
                 /\ e.reelUrlHash = generateReelHash(queue'[ws'[w].job].body.url)
                 /\ ws'[w].analysis = e.analysis
       /\ (ws[w].hit /\ ws'[w] # ws[w]) =>
            /\ dna' = dna
            /\ hist'[ws[w].job] = hist[ws[w].job]]_vars

C23_Witness ==
  \E w \in Workers :
    /\ ws[w].hit
    /\ ws[w].pc = "generate"
    /\ ws[w].analysis = "visual-only"
    /\ hist[ws[w].job].downloads = 0

\* the cache entries of the source of worker w's job, in a given cache
EntriesOf(cache, w) ==
  {e \in cache : e.reelUrlHash = generateReelHash(Body(w).url)}

\* C24: a cache store never fails the attempt: the worker goes on to the
\* context lookup and neither the Job record nor the queue changes; a store
\* that finds the entry of its source already created by another worker
\* leaves the cache as it is; and the cache never holds two entries for one
\* source.
C24_DuplicateStoreSwallowed ==
  [][/\ \A w \in Workers :
          (ws[w].pc = "store" /\ ws'[w] # ws[w]) =>
             /\ ws'[w].pc = "context"
             /\ jobs' = jobs /\ queue' = queue
             /\ EntriesOf(dna, w) # {} => dna' = dna
             /\ faultsLeft' = faultsLeft => Cardinality(EntriesOf(dna', w)) = 1
     /\ \A e1 \in dna', e2 \in dna' :
          e1.reelUrlHash = e2.reelUrlHash => e1 = e2]_vars

C24_Witness ==
  \E j1 \in HandlerIds, j2 \in HandlerIds :
    /\ j1 # j2
    /\ hist[j1].analyses = 1 /\ hist[j2].analyses = 1
    /\ hist[j1].starts = 1 /\ hist[j2].starts = 1
    /\ queue[j1].state = "completed" /\ queue[j2].state = "completed"
    /\ Cardinality(dna) = 1
    /\ faultsLeft = MaxFaults

\* C25: every step leaves each cache entry in place and unchanged, and a
\* cache probe changes neither the cache nor the Script and Job records.
C25_CacheAppendOnly ==
  [][/\ dna \subseteq dna'
     /\ \A w \in Workers :
          (ws[w].pc = "probe" /\ ws'[w] # ws[w]) =>
             (dna' = dna /\ scripts' = scripts /\ jobs' = jobs)]_vars

C25_Witness ==
  \E w \in Workers :
    /\ ws[w].pc = "context"
    /\ ~ws[w].hit
    /\ ws[w].analysis = "visual-only"
    /\ \E e \in EntriesOf(dna, w) : e.analysis = "with-transcript"

\* ---- fallback (SpecRetry)
\* C26: the fallback is sent only by the failure that exhausts the retry
\* budget; a job that has failed an attempt and waits for its retry has had
\* nothing sent to its recipient; and a job that has failed for good has had
\* the fallback sent exactly once.
C26_FallbackOnlyAtExhaustion ==
  \A j \in HandlerIds :
    /\ sent[j].fallback > 0 =>
         (queue[j].state = "failed" /\ queue[j].attemptsMade = QueueAttempts)
    /\ (queue[j].state \in {"delayed", "waiting"} /\ queue[j].attemptsMade > 0) =>
         sent[j].full + sent[j].fallback = 0
    /\ queue[j].state = "failed" => sent[j].fallback = 1

\* ---- order of persist, deliver, complete (Spec)
\* C30: a worker reaches the delivery only from the step that wrote the
\* Script row with its publicId (and the dataset log after it), the full
\* notification is sent only by a worker in the delivery step, and the Job
\* record becomes 'completed' only by a worker that has made its delivery
\* attempt.
C30_PersistDeliverComplete ==
  [][\A w \in Workers :
       LET j == ws[w].job IN
       /\ (ws[w].pc = "save" /\ ws'[w].pc # "save" /\ ws'[w].pc # "catch") =>
            /\ ws'[w].pc = "dataset"
            /\ \E r \in scripts' : /\ r.publicId = ws[w].publicId
                                   /\ r.requestHash = jobs[j].requestHash
       /\ (ws'[w].pc = "deliver" /\ ws[w].pc # "deliver") =>
            (ws[w].pc = "dataset" /\ ws'[w].publicId = ws[w].publicId)
       /\ (ws'[w].pc = "complete" /\ ws[w].pc # "complete") =>
            (ws[w].pc = "deliver" /\ sent'[j].full = sent[j].full + 1)
       /\ (ws[w].pc # "idle" /\ sent'[j].full # sent[j].full) =>
            ws[w].pc = "deliver"
       /\ (ws[w].pc # "idle" /\ jobs'[j].status = "completed"
             /\ jobs[j].status # "completed") =>
            ws[w].pc = "complete"]_vars

C30_Witness ==
  \E w \in Workers :
    /\ ws[w].pc = "finish"
    /\ jobs[ws[w].job].status = "completed"
    /\ sent[ws[w].job].full = 1
    /\ \E r \in scripts : r.publicId = ws[w].publicId

\* ---- rendering engine handle (SpecBrowser)
\* C31: while no instance has disconnected and the handle has not been
\* closed, at most one instance has been launched and all callers that hold a
\* handle hold the same one.
C31_OneInstance ==
  (br.pc = "run" /\ br.disconnects = 0 /\ br.closer = "idle") =>
     /\ br.launched <= 1
     /\ \A c1 \in BrowserCallers, c2 \in BrowserCallers :
          (br.callers[c1].pc = "holding" /\ br.callers[c2].pc = "holding")
             => br.callers[c1].got = br.callers[c2].got

\* C32: getBrowser returns a live instance only, a call that finds no handle
\* launches, and the disconnect of an instance that is not the current handle
\* leaves a live current handle in place.
C32_NoDeadHandle ==
  [][br.pc = "run" =>
       /\ \A c \in BrowserCallers :
            (br.callers[c].pc # "holding" /\ br'.callers[c].pc = "holding")
               => br'.callers[c].got \in br'.live
       /\ \A c \in BrowserCallers :
            (br.callers[c].pc = "idle" /\ br'.callers[c].pc # "idle"
               /\ br.browserInstance = 0)
               => br'.callers[c].pc = "launching"
       /\ \A b \in br.live :
            (b \notin br'.live /\ br.browserInstance # b
               /\ br.browserInstance \in br'.live)
               => br'.browserInstance = br.browserInstance]_vars

\* ---- Job records and Script rows (Spec)
\* C33: whenever a Job record is completed, a Script row exists for its
\* fingerprint and holds the script text and the image URL of the job's
\* result.
C33_CompletedHasScript ==
  \A j \in JobIds :
    jobs[j].status = "completed" =>
      \E r \in scripts :
        /\ r.requestHash = jobs[j].requestHash
        /\ <<r.scriptText, r.imageUrl>> = jobs[j].result

\* C34: every Job record with status queued has a work item in the queue,
\* unless the handler that created it is still on its way to enqueue it.
C34_QueuedHasWorkItem ==
  \A j \in HandlerIds :
    (jobs[j].status = "queued" /\ hs[j].pc # "enqueue") => queue[j].state # "none"

\* ---- rate limiter under concurrent requests (SpecRL)
\* C36: as long as no store operation of the limiter has been made to fail,
\* a request that is passed on is at most the MAX_REQUESTS-th request of its
\* window, also when requests of the identity overlap in the middleware.
C36_ConcurrentLimit ==
  (rlFaultsLeft = RlFaults /\ answered.verdict = "next")
     => answered.ord <= MAX_REQUESTS

\* ------------------------------------------- timeout middleware and handler
\* server.ts:12-29 arms a 10 s timer per request and passes the request on;
\* generateScriptHandler (part_016:24-107) answers from its try block or
\* from its catch block.  rt maps each request slot to its exchange.
TimeoutSlots == {1, 2}
RequestKinds == {"invalid", "cached", "existing", "fresh"}
Awaiting == {"findScript", "findJob", "create", "enqueue"}

IdleExchange ==
  [pc |-> "idle", kind |-> "", timer |-> "none", headersSent |-> FALSE,
   finished |-> FALSE, wire |-> <<>>, late |-> 0, outcome |-> "none"]

rtFrame == <<pipeVars, rlVars, fps, views, ex, mc, br, lk>>

\* res.status(code).json(body): the first write sends the headers; a write
\* after the headers were sent throws ERR_HTTP_HEADERS_SENT
Written(r, code) ==
  [r EXCEPT !.headersSent = TRUE, !.wire = Append(@, code)]

\* part_016:98-106: the catch block answers 500 without testing
\* res.headersSent; when that write throws, the promise of the async handler
\* rejects: the router either leaves the rejection unhandled or forwards it
\* to the central error handler (server.ts:47-56), which tests headersSent
HandlerCatch(r, esc) ==
  IF r.headersSent
    THEN [r EXCEPT !.pc = "rejected", !.late = @ + 1, !.outcome = esc]
    ELSE [Written(r, 500) EXCEPT !.pc = "done"]

\* a res.json inside the try block (lines 31-35, 46-51, 62-66, 91-95): when
\* it throws, control passes to the catch block
TryRespond(r, code, esc) ==
  IF r.headersSent
    THEN HandlerCatch([r EXCEPT !.late = @ + 1], esc)
    ELSE [Written(r, code) EXCEPT !.pc = "done"]

Escapes == {"unhandled", "forwarded"}

\* server.ts:13-28 then part_016:24-44: the timer is armed, next() runs the
\* handler up to its first await; an invalid body is answered 400 at once
Arrive(q, kind) ==
  /\ rt[q].pc = "idle"
  /\ \A p \in TimeoutSlots : p < q => rt[p].pc # "idle"
  /\ LET r == [rt[q] EXCEPT !.kind = kind, !.timer = "armed"]
     IN rt' = [rt EXCEPT ![q] =
                 IF kind = "invalid" THEN TryRespond(r, 400, "unhandled")
                 ELSE [r EXCEPT !.pc = "findScript"]]
  /\ UNCHANGED rtFrame

\* server.ts:15-24: the timer callback, between two steps of the handler
TimerFires(q) ==
  /\ rt[q].timer = "armed"
  /\ rt' = [rt EXCEPT ![q] =
              IF rt[q].headersSent THEN [rt[q] EXCEPT !.timer = "fired"]
              ELSE [Written(rt[q], 503) EXCEPT !.timer = "fired"]]
  /\ UNCHANGED rtFrame

\* server.ts:27: 'finish' of the response clears the timer
Finish(q) ==
  /\ rt[q].headersSent /\ ~rt[q].finished
  /\ rt' = [rt EXCEPT ![q] =
              [rt[q] EXCEPT !.finished = TRUE,
                            !.timer = IF @ = "armed" THEN "cleared" ELSE @]]
  /\ UNCHANGED rtFrame

\* part_016:45-52: Script.findOne resolves
FindScriptReturns(q) ==
  /\ rt[q].pc = "findScript"
  /\ \E esc \in Escapes :
       rt' = [rt EXCEPT ![q] =
                IF rt[q].kind = "cached" THEN TryRespond(rt[q], 200, esc)
                ELSE [rt[q] EXCEPT !.pc = "findJob"]]
  /\ UNCHANGED rtFrame

\* part_016:55-67: Job.findOne resolves
FindJobReturns(q) ==
  /\ rt[q].pc = "findJob"
  /\ \E esc \in Escapes :
       rt' = [rt EXCEPT ![q] =
                IF rt[q].kind = "existing" THEN TryRespond(rt[q], 200, esc)
                ELSE [rt[q] EXCEPT !.pc = "create"]]
  /\ UNCHANGED rtFrame

\* part_016:70-78: Job.create resolves
CreateReturns(q) ==
  /\ rt[q].pc = "create"
  /\ rt' = [rt EXCEPT ![q].pc = "enqueue"]
  /\ UNCHANGED rtFrame

\* part_016:81-95: addScriptJob resolves, the queued answer is written
EnqueueReturns(q) ==
  /\ rt[q].pc = "enqueue"
  /\ \E esc \in Escapes :
       rt' = [rt EXCEPT ![q] = TryRespond(rt[q], 200, esc)]
  /\ UNCHANGED rtFrame

\* part_016:98-106: one of the awaited calls rejects
AwaitRejects(q) ==
  /\ rt[q].pc \in Awaiting
  /\ \E esc \in Escapes :
       rt' = [rt EXCEPT ![q] = HandlerCatch(rt[q], esc)]
  /\ UNCHANGED rtFrame

InitTimeout ==
  /\ PipeIdle
  /\ scripts = {}
  /\ RlInitial
  /\ fps = NoFps
  /\ views = [v \in ViewSlots |-> NoView]
  /\ ex = NoEx /\ mc = NoMc /\ br = NoBr /\ lk = NoLk
  /\ rt = [q \in TimeoutSlots |-> IdleExchange]

NextTimeout ==
  \/ \E q \in TimeoutSlots, k \in RequestKinds : Arrive(q, k)
  \/ \E q \in TimeoutSlots : TimerFires(q)
  \/ \E q \in TimeoutSlots : Finish(q)
  \/ \E q \in TimeoutSlots : FindScriptReturns(q)
  \/ \E q \in TimeoutSlots : FindJobReturns(q)
  \/ \E q \in TimeoutSlots : CreateReturns(q)
  \/ \E q \in TimeoutSlots : EnqueueReturns(q)
  \/ \E q \in TimeoutSlots : AwaitRejects(q)

SpecTimeout == InitTimeout /\ [][NextTimeout]_vars

\* C35: for every request at most one response is written, a handler that
\* finishes after the 503 of the timeout middleware makes no further write
\* attempt, and neither of its paths ends in an error that escapes it.
C35_SingleResponse ==
  \A q \in TimeoutSlots :
    /\ Len(rt[q].wire) <= 1
    /\ rt[q].late = 0
    /\ rt[q].outcome = "none"

\* ------------------------------------------------ public identifier and link
\* viewScript.ts:11-45.  Buffer.toString('base64url'): three bytes give four
\* characters of the URL-safe alphabet, a remainder of one or two bytes gives
\* two or three characters, and no padding is written.
Base64AlphabetMut ==
  <<"A","B","C","D","E","F","G","H","I","J","K","L","M",
    "N","O","P","Q","R","S","T","U","V","W","X","Y","Z",
    "a","b","c","d","e","f","g","h","i","j","k","l","m",
    "n","o","p","q","r","s","t","u","v","w","x","y","z",
    "0","1","2","3","4","5","6","7","8","9","+","/">>

Base64UrlAlphabet ==
  <<"A","B","C","D","E","F","G","H","I","J","K","L","M",
    "N","O","P","Q","R","S","T","U","V","W","X","Y","Z",
    "a","b","c","d","e","f","g","h","i","j","k","l","m",
    "n","o","p","q","r","s","t","u","v","w","x","y","z",
    "0","1","2","3","4","5","6","7","8","9","-","_">>

Sextet(n) == Base64UrlAlphabet[n + 1]

RECURSIVE Base64Url(_)
Base64Url(bytes) ==
  IF Len(bytes) = 0 THEN <<>>
  ELSE IF Len(bytes) = 1
    THEN <<Sextet(bytes[1] \div 4), Sextet((bytes[1] % 4) * 16)>>
  ELSE IF Len(bytes) = 2
    THEN <<Sextet(bytes[1] \div 4),
           Sextet((bytes[1] % 4) * 16 + bytes[2] \div 16),
           Sextet((bytes[2] % 16) * 4)>>
  ELSE <<Sextet(bytes[1] \div 4),
         Sextet((bytes[1] % 4) * 16 + bytes[2] \div 16),
         Sextet((bytes[2] % 16) * 4 + bytes[3] \div 64),
         Sextet(bytes[3] % 64)>>
       \o Base64Url(SubSeq(bytes, 4, Len(bytes)))

\* crypto.randomBytes(n): byte values sampled so that every region of the
\* alphabet, its last two characters included, occurs in every position
ByteSamples == {0, 62, 63, 77, 251, 255}
ByteTriples == {<<a, b, c>> : a \in ByteSamples, b \in ByteSamples, c \in ByteSamples}
RandomBytes6 == {t \o t : t \in ByteTriples}
RandomBytes9 == {t \o t \o t : t \in ByteTriples}

\* lines 11-15
generatePublicId(bytes) == Base64Url(bytes)

\* config.BASE_URL, "" when unset; config.PORT
BaseUrls == {"", "https://yourapp.onrender.com", "https://yourapp.onrender.com/"}
PortText == "3000"

\* lines 42-45: `${baseUrl}/s/${publicId}`, the text as a sequence of parts
buildScriptUrlMut(base, publicId) ==
  <<IF base # "" THEN base ELSE "http://localhost:" \o PortText, "/s">>
    \o publicId

buildScriptUrl(base, publicId) ==
  <<IF base # "" THEN base ELSE "http://localhost:" \o PortText, "/s/">>
    \o publicId

\* the route /s/:publicId hands the handler what follows "/s/" in the link
RouteParam(url) ==
  IF Len(url) >= 2 /\ url[2] = "/s/" THEN SubSeq(url, 3, Len(url)) ELSE <<>>

NoLink == [pc |-> "draw", tries |-> 0, base |-> "", id |-> <<>>, url |-> <<>>,
           param |-> <<>>, status |-> 0]

lkFrame == <<pipeVars, rlVars, fps, views, ex, mc, br, rt>>

\* lines 21-36: one pass of the loop with the result of its
\* Script.findOne({publicId}); after the third collision the 9-byte token
GenerateUniquePublicId(bytes, longBytes, existing) ==
  /\ lk.pc = "draw"
  /\ lk' = IF ~existing
             THEN [lk EXCEPT !.pc = "issued", !.id = generatePublicId(bytes)]
           ELSE IF lk.tries + 1 < PublicIdTries
             THEN [lk EXCEPT !.tries = @ + 1]
           ELSE [lk EXCEPT !.pc = "issued", !.tries = @ + 1,
                           !.id = Base64Url(longBytes)]
  /\ UNCHANGED lkFrame

\* part_014:225: the link sent to the subscriber
BuildLink(base) ==
  /\ lk.pc = "issued"
  /\ lk' = [lk EXCEPT !.pc = "linked", !.base = base,
                      !.url = buildScriptUrl(base, lk.id)]
  /\ UNCHANGED lkFrame

\* lines 57-64: the subscriber opens the link; the format check of the handler
OpenLink ==
  /\ lk.pc = "linked"
  /\ LET id == RouteParam(lk.url)
     IN lk' = [lk EXCEPT !.pc = "opened", !.param = id,
                         !.status = IF ~ValidPublicId(id) THEN 400 ELSE 200]
  /\ UNCHANGED lkFrame

InitLink ==
  /\ PipeIdle
  /\ scripts = {}
  /\ RlInitial
  /\ fps = NoFps
  /\ views = [v \in ViewSlots |-> NoView]
  /\ ex = NoEx /\ mc = NoMc /\ br = NoBr /\ rt = NoRt
  /\ lk = NoLink

NextLink ==
  \/ \E b \in RandomBytes6, l \in RandomBytes9, e \in BOOLEAN :
       GenerateUniquePublicId(b, l, e)
  \/ \E base \in BaseUrls : BuildLink(base)
  \/ OpenLink

SpecLink == InitLink /\ [][NextLink]_vars

\* C37: every identifier generateUniquePublicId returns, the 8-character
\* token and the 12-character fallback, passes the format check of
\* viewScriptHandler; the link is base URL, then "/s/", then the identifier;
\* opening an issued link is never answered "Invalid script link".
C37_IssuedLinkAccepted ==
  /\ lk.pc \in {"issued", "linked", "opened"} =>
       /\ ValidPublicId(lk.id)
       /\ Len(lk.id) = (IF lk.tries < PublicIdTries THEN 8 ELSE 12)
  /\ lk.pc \in {"linked", "opened"} =>
       /\ Len(lk.url) = 2 + Len(lk.id)
       /\ lk.url[1] = (IF lk.base # "" THEN lk.base ELSE "http://localhost:3000")
       /\ lk.url[2] = "/s/"
       /\ SubSeq(lk.url, 3, Len(lk.url)) = lk.id
  /\ lk.pc = "opened" => (lk.param = lk.id /\ lk.status # 400)

\* an opened link whose 12-character fallback identifier holds both "-" and "_"
C37_Witness ==
  /\ lk.pc = "opened"
  /\ Len(lk.id) = 12
  /\ \E i, j \in 1..12 : lk.id[i] = "-" /\ lk.id[j] = "_"
  /\ lk.status = 200

\* ------------------------------------------------- temporary files of an attempt
\* processJob lines 65-155 and 387-393.  The attempt keeps three locals,
\* videoPath, audioPath and frameDir (null at first); the finally block
\* passes to cleanup what these locals hold.  created is what the attempt
\* has written under temp/: the video, the audio file, the frame directory.
TempFiles == {"video", "audio", "frames"}

StartOfAttempt(mode, n) ==
  [pc |-> "start", mode |-> mode, attempt |-> n,
   videoPath |-> FALSE, audioPath |-> FALSE, frameDir |-> FALSE,
   frameTask |-> "none", audioTask |-> "none", frames |-> FALSE,
   created |-> {}, passed |-> {}, result |-> "none"]

\* lines 387-393: cleanupFiles([videoPath, audioPath]);
\* if (frameDir) cleanupFrames(frameDir)
Finally(e, result) ==
  [e EXCEPT !.pc = "ended", !.result = result,
            !.passed = (IF e.videoPath THEN {"video"} ELSE {})
                         \cup (IF e.audioPath THEN {"audio"} ELSE {})
                         \cup (IF e.frameDir THEN {"frames"} ELSE {})]

\* lines 73-90: the Reel DNA lookup; on a hit no file is written
CacheLookup(hit) ==
  /\ ex.pc = "start"
  /\ ex' = [ex EXCEPT !.pc = IF hit THEN "rest" ELSE "download"]
  /\ UNCHANGED exFrame

\* line 96 and reelDownloader.ts:18-31: yt-dlp wrote temp/<id>.mp4 and the
\* path is assigned to videoPath
DownloadReturns ==
  /\ ex.pc = "download"
  /\ ex' = [ex EXCEPT !.pc = "downloaded", !.videoPath = TRUE,
                      !.created = @ \cup {"video"}]
  /\ UNCHANGED exFrame

\* reelDownloader.ts:28-40: no file was created, downloadReel throws
DownloadThrows ==
  /\ ex.pc = "download"
  /\ ex' = Finally(ex, "failed")
  /\ UNCHANGED exFrame

\* lines 99-110: both extractions are started
ExtractionStarts ==
  /\ ex.pc = "downloaded"
  /\ ex.mode \in {"hybrid", "frames"}
  /\ ex' = [ex EXCEPT !.pc = "await", !.frameTask = "running",
                      !.audioTask = IF ex.mode = "hybrid" THEN "running" ELSE "none"]
  /\ UNCHANGED exFrame

\* extractFrames resolves with frames in their directory, or with an empty
\* list and nothing written
FramesEnd(r) ==
  /\ ex.pc = "await"
  /\ ex.frameTask = "running"
  /\ ex' = [ex EXCEPT !.frameTask = r,
                      !.created = IF r = "frames" THEN @ \cup {"frames"} ELSE @]
  /\ UNCHANGED exFrame

\* audioExtractor.ts:6-26: ffmpeg writes temp/<id>.wav directly (.save);
\* 'end' resolves with the path; 'error' resolves with null, before anything
\* was written or with a part of the file on disk
AudioOutcome(e, r, partial) ==
  [e EXCEPT !.audioTask = r,
            !.created = IF r = "path" \/ partial THEN @ \cup {"audio"} ELSE @]

AudioEnds(r, partial) ==
  /\ ex.pc = "await"
  /\ ex.audioTask = "running"
  /\ ex' = AudioOutcome(ex, r, partial)
  /\ UNCHANGED exFrame

\* lines 113-129: Promise.all resolved; frames and audioPath are assigned,
\* frameDir only when the list of frames is not empty
AssignPaths ==
  /\ ex.pc = "await"
  /\ ex.frameTask # "running" /\ ex.audioTask # "running"
  /\ LET got == ex.frameTask = "frames"
         audio == ex.audioTask = "path"
     IN ex' = [ex EXCEPT !.pc = IF got \/ audio THEN "analyse" ELSE "again",
                         !.frames = got, !.frameDir = got, !.audioPath = audio]
  /\ UNCHANGED exFrame

\* lines 141-144: no frames and no audio path: extractAudio once more
AudioAgain(r, partial) ==
  /\ ex.pc = "again"
  /\ ex' = [AudioOutcome(ex, r, partial) EXCEPT !.pc = "analyse",
                                                !.audioPath = (r = "path")]
  /\ UNCHANGED exFrame

\* lines 150-151: audio-only mode
AudioAlone(r, partial) ==
  /\ ex.pc = "downloaded"
  /\ ex.mode = "audio"
  /\ ex' = [AudioOutcome(ex, r, partial) EXCEPT !.pc = "analyse",
                                                !.audioPath = (r = "path")]
  /\ UNCHANGED exFrame

\* lines 131-137, 145-147, 152-154: analyzeVideo returns
AnalysisReturns ==
  /\ ex.pc = "analyse"
  /\ ex' = [ex EXCEPT !.pc = "rest"]
  /\ UNCHANGED exFrame

\* lines 157-345: generation, persistence and delivery succeed; finally
AttemptSucceeds ==
  /\ ex.pc = "rest"
  /\ ex' = Finally(ex, "completed")
  /\ UNCHANGED exFrame

\* lines 347-386: an awaited step after the download throws; catch, finally
AttemptThrows ==
  /\ ex.pc \in {"downloaded", "analyse", "rest"}
  /\ ex' = Finally(ex, "failed")
  /\ UNCHANGED exFrame

\* part_012:15-19: a failed attempt is retried; the locals start at null again
NextAttempt ==
  /\ ex.pc = "ended" /\ ex.result = "failed"
  /\ ex.attempt <= FinalAttemptsMade
  /\ ex' = StartOfAttempt(ex.mode, ex.attempt + 1)
  /\ UNCHANGED exFrame

AudioResults == {"path", "null"}

InitCleanup ==
  /\ PipeIdle
  /\ scripts = {}
  /\ RlInitial
  /\ fps = NoFps
  /\ views = [v \in ViewSlots |-> NoView]
  /\ mc = NoMc /\ br = NoBr /\ rt = NoRt /\ lk = NoLk
  /\ \E mode \in AnalysisModes : ex = StartOfAttempt(mode, 1)

NextCleanup ==
  \/ \E hit \in BOOLEAN : CacheLookup(hit)
  \/ DownloadReturns
  \/ DownloadThrows
  \/ ExtractionStarts
  \/ \E r \in {"frames", "empty"} : FramesEnd(r)
  \/ \E r \in AudioResults, partial \in BOOLEAN : AudioEnds(r, partial)
  \/ AssignPaths
  \/ \E r \in AudioResults, partial \in BOOLEAN : AudioAgain(r, partial)
  \/ \E r \in AudioResults, partial \in BOOLEAN : AudioAlone(r, partial)
  \/ AnalysisReturns
  \/ AttemptSucceeds
  \/ AttemptThrows
  \/ NextAttempt

SpecCleanup == InitCleanup /\ [][NextCleanup]_vars

\* C38: when an attempt of processJob has ended, by success or by a failure
\* at any step, every temporary file the attempt created (video, audio,
\* frames) has been passed to cleanup.
C38_AllTempFilesCleaned ==
  ex.pc = "ended" => ex.created \subseteq ex.passed


====
